---------------------------- MODULE Spec2Model ----------------------------
(***************************************************************************)
(* A model of the AI health triage service: the rule-based severity        *)
(* scorer (services/ai_engine.py), the remote scorer with its fallback     *)
(* (services/real_ai_service.py), the queue manager                        *)
(* (services/queue_manager.py) over the document store                     *)
(* (services/firebase_service.py) and the request handlers that drive      *)
(* them (routes/triage.py, routes/doctor.py).                              *)
(*                                                                         *)
(* Texts are sequences of one-character strings, so that lower-casing and  *)
(* substring search are computed rather than assumed.                      *)
(***************************************************************************)
EXTENDS Integers, Sequences, FiniteSets, TLC

VARIABLES
  useFallback,     \* settings.USE_FALLBACK_AI, fixed by the deployment
  active_connections, \* ConnectionManager.active_connections
  visits,          \* store collection 'visits': visit id (1..) -> record
  triage_results,  \* store collection 'triage_results', in creation order
  queue,           \* store collection 'queue': the set of entry documents
  doc_order,       \* the ids of the queue documents, by (checked_in_at to
                   \* the microsecond, document id)
  alerts,          \* store collection 'alerts', in creation order
  doctor_notes,    \* store collection 'doctor_notes': visit ids, in order
  queue_cache,     \* QueueManager.queue_cache
  cacheOwner,      \* the task whose refresh built the list queue_cache is
  tasks,           \* the request handlers in flight, one slot per task
  running,         \* the task that holds the event loop, or NoTask
  now,             \* datetime.utcnow(), in seconds
  follow_ups,      \* follow-up requests answered so far
  served,          \* requests answered so far, of any kind
  sc_in,           \* scorer harness: the arguments of one scorer call
  sc_out           \* scorer harness: what the call returned

storeVars  == <<visits, triage_results, queue, doc_order, alerts, doctor_notes>>
scorerVars == <<sc_in, sc_out>>
vars == <<useFallback, active_connections, visits, triage_results, queue, doc_order, alerts,
          doctor_notes,
          queue_cache, cacheOwner, tasks, running, now, follow_ups, served,
          sc_in, sc_out>>

None == "None"

\* Python's None where the other values are numbers (a vital's value).
NoneValue == -1

-----------------------------------------------------------------------------
(* Text: str.lower() and the `in` operator on strings.                     *)

UpperCase == <<"A","B","C","D","E","F","G","H","I","J","K","L","M","N","O","P","Q","R","S","T","U","V","W","X","Y","Z">>
LowerCase == <<"a","b","c","d","e","f","g","h","i","j","k","l","m","n","o","p","q","r","s","t","u","v","w","x","y","z">>

\* Capitals outside ASCII, written by their code points: the Kelvin sign,
\* E with acute, and I with dot above, whose lower case is two characters
\* (i and the combining dot U+0307).
NonAsciiUpper == <<"U+212A", "U+00C9", "U+0130">>
NonAsciiLower == << <<"k">>, <<"U+00E9">>, <<"i", "U+0307">> >>

\* The capitals of the model's alphabet, each with its lower case.
Capitals ==
  {UpperCase[k] : k \in DOMAIN UpperCase} \cup {NonAsciiUpper[k] : k \in DOMAIN NonAsciiUpper}
LowerOf ==
  [c \in Capitals |->
     IF \E k \in DOMAIN UpperCase : UpperCase[k] = c
       THEN << LowerCase[CHOOSE k \in DOMAIN UpperCase : UpperCase[k] = c] >>
       ELSE NonAsciiLower[CHOOSE k \in DOMAIN NonAsciiUpper : NonAsciiUpper[k] = c]]

\* c.lower() for a string c of one character: a string.
LowerChar(c) == IF c \in Capitals THEN LowerOf[c] ELSE <<c>>

RECURSIVE Joined(_, _)
Joined(parts, k) == IF k = 0 THEN <<>> ELSE Joined(parts, k - 1) \o parts[k]

\* text.lower(): the lower case of each character, joined.
Lower(text) ==
  IF \A k \in DOMAIN text : Len(LowerChar(text[k])) = 1
    THEN [k \in 1..Len(text) |-> LowerChar(text[k])[1]]
    ELSE Joined([k \in 1..Len(text) |-> LowerChar(text[k])], Len(text))

\* needle in haystack
Contains(needle, haystack) ==
  \E k \in 0..(Len(haystack) - Len(needle)) :
     SubSeq(haystack, k + 1, k + Len(needle)) = needle

-----------------------------------------------------------------------------
(* config.py                                                               *)

MODERATE_MIN == 40
CRITICAL_MIN == 70

EMERGENCY_KEYWORDS ==
  << <<"c","h","e","s","t"," ","p","a","i","n">>,
     <<"d","i","f","f","i","c","u","l","t","y"," ","b","r","e","a","t","h","i","n","g">>,
     <<"u","n","c","o","n","s","c","i","o","u","s">>,
     <<"s","e","v","e","r","e"," ","b","l","e","e","d","i","n","g">>,
     <<"s","t","r","o","k","e"," ","s","y","m","p","t","o","m","s">>,
     <<"h","e","a","r","t"," ","a","t","t","a","c","k">>,
     <<"s","e","i","z","u","r","e">>,
     <<"s","u","i","c","i","d","e">>,
     <<"o","v","e","r","d","o","s","e">>,
     <<"s","e","v","e","r","e"," ","h","e","a","d"," ","i","n","j","u","r","y">>,
     <<"c","h","o","k","i","n","g">>,
     <<"a","n","a","p","h","y","l","a","x","i","s">>,
     <<"s","e","v","e","r","e"," ","b","u","r","n","s">> >>

-----------------------------------------------------------------------------
(* services/ai_engine.py: the rule-based scorer.                           *)

\* The vitals in the order VitalsBase.model_dump() lists them.  Temperature
\* is in tenths of a degree, so that 35.5 and 39.5 are integers; the other
\* vitals are in their own units.  weight and height have no thresholds.
VitalOrder == <<"temperature", "heart_rate", "blood_pressure_systolic",
                "blood_pressure_diastolic", "respiratory_rate",
                "oxygen_saturation", "weight", "height">>

\* The items of the readings r (a record) under the keys of `order` that r
\* has, in that order.
RECURSIVE ItemsIn(_, _)
ItemsIn(order, r) ==
  IF order = <<>> THEN <<>>
  ELSE (IF Head(order) \in DOMAIN r /\ r[Head(order)] # NoneValue
          THEN << <<Head(order), r[Head(order)]>> >> ELSE <<>>)
       \o ItemsIn(Tail(order), r)

\* VitalsBase(**r).model_dump(exclude_none=True)
model_dump_exclude_none(r) == ItemsIn(VitalOrder, r)

\* VitalsBase(**r).model_dump(): every field, None where r has no reading.
model_dump(r) ==
  [k \in 1..Len(VitalOrder) |->
     <<VitalOrder[k], IF VitalOrder[k] \in DOMAIN r THEN r[VitalOrder[k]] ELSE NoneValue>>]

vital_thresholds ==
  [ temperature              |-> [critical_low |-> 355, low |-> 360, high |-> 380, critical_high |-> 395],
    heart_rate               |-> [critical_low |-> 50,  low |-> 60,  high |-> 100, critical_high |-> 120],
    blood_pressure_systolic  |-> [critical_low |-> 90,  low |-> 100, high |-> 140, critical_high |-> 180],
    blood_pressure_diastolic |-> [critical_low |-> 60,  low |-> 70,  high |-> 90,  critical_high |-> 110],
    respiratory_rate         |-> [critical_low |-> 10,  low |-> 12,  high |-> 20,  critical_high |-> 30],
    oxygen_saturation        |-> [critical_low |-> 90,  low |-> 95,  high |-> 100, critical_high |-> 100] ]

\* found_keywords: the configured keywords that occur in text.lower(), in
\* the order of the configuration.
found_keywords(text) ==
  LET text_lower == Lower(text)
  IN  SelectSeq(EMERGENCY_KEYWORDS, LAMBDA kw : Contains(kw, text_lower))

check_emergency_keywords_case_sensitive(text) ==
  LET found == SelectSeq(EMERGENCY_KEYWORDS, LAMBDA kw : Contains(kw, text))
  IN  [is_emergency |-> Len(found) > 0, flags |-> found]

check_emergency_keywords(text) ==
  [is_emergency |-> Len(found_keywords(text)) > 0,
   flags        |-> found_keywords(text)]

\* What one vital adds: <<points, label>>.
VitalFinding(name, value) ==
  IF value = NoneValue \/ name \notin DOMAIN vital_thresholds THEN <<0, "skip">>
  ELSE LET th == vital_thresholds[name] IN
       IF value <= th.critical_low \/ value >= th.critical_high THEN <<30, "Critical">>
       ELSE IF value <= th.low \/ value >= th.high THEN <<15, "Abnormal">>
       ELSE <<0, "normal">>

\* A dict is the sequence of its items, <<key, value>>, in the order of its
\* keys: the order `for vital_name, value in vitals.items()` visits them.
RECURSIVE VitalSum(_, _)
VitalSum(vitals, k) ==
  IF k = 0 THEN 0
  ELSE VitalSum(vitals, k - 1) + VitalFinding(vitals[k][1], vitals[k][2])[1]

RECURSIVE VitalList(_, _)
VitalList(vitals, k) ==
  IF k = 0 THEN <<>>
  ELSE LET f == VitalFinding(vitals[k][1], vitals[k][2])
       IN  IF f[1] > 0
             THEN Append(VitalList(vitals, k - 1), <<f[2], vitals[k][1], vitals[k][2]>>)
             ELSE VitalList(vitals, k - 1)

Min(a, b) == IF a <= b THEN a ELSE b
Max(a, b) == IF a >= b THEN a ELSE b

analyze_vitals_uncapped(vitals) ==
  [score         |-> VitalSum(vitals, Len(vitals)),
   abnormalities |-> VitalList(vitals, Len(vitals))]

analyze_vitals(vitals) ==
  [score         |-> Min(VitalSum(vitals, Len(vitals)), 50),
   abnormalities |-> VitalList(vitals, Len(vitals))]

\* int((symptom_score * 0.7) + (vital_score * 0.3)) in IEEE doubles.  The
\* sum is the floor of (7s + 3v)/10 except where the double products round
\* just below an integer: 90 * 0.7 is 62.99999999999999, and 85 * 0.7 + 4.5
\* is 63.99999999999999.
CombineScores(symptom_score, vital_score) ==
  IF <<symptom_score, vital_score>> \in {<<90, 0>>, <<85, 15>>}
    THEN ((7 * symptom_score + 3 * vital_score) \div 10) - 1
    ELSE (7 * symptom_score + 3 * vital_score) \div 10

chronic == <<"c","h","r","o","n","i","c">>
weeks   == <<"w","e","e","k","s">>
months  == <<"m","o","n","t","h","s">>
sudden  == <<"s","u","d","d","e","n">>
acute   == <<"a","c","u","t","e">>

\* `if duration:` is false for None and for "": both are the empty text here.
DurationModifier(total_score, duration) ==
  IF duration = <<>> THEN total_score
  ELSE IF \/ Contains(chronic, Lower(duration))
          \/ Contains(weeks, Lower(duration))
          \/ Contains(months, Lower(duration))
         THEN Min(total_score, 65)
  ELSE IF Contains(sudden, Lower(duration)) \/ Contains(acute, Lower(duration))
         THEN Min(total_score + 10, 100)
  ELSE total_score

ClassifyStrict(score) ==
  IF score > CRITICAL_MIN THEN [severity_level |-> "critical", priority |-> 1]
  ELSE IF score > MODERATE_MIN THEN [severity_level |-> "moderate", priority |-> 2]
  ELSE [severity_level |-> "normal", priority |-> 3]

\* Step 6 of predict_severity, and the same ladder in reassess_severity.
Classify(score) ==
  IF score >= CRITICAL_MIN THEN [severity_level |-> "critical", priority |-> 1]
  ELSE IF score >= MODERATE_MIN THEN [severity_level |-> "moderate", priority |-> 2]
  ELSE [severity_level |-> "normal", priority |-> 3]

\* The dict predict_severity returns when a keyword matched.
EmergencyResult(flags) ==
  [severity_score |-> 100, severity_level |-> "critical", priority |-> 1,
   emergency_flags |-> flags, vital_abnormalities |-> <<>>,
   rule_based_override |-> TRUE]

\* symptom_score stands for calculate_symptom_severity(extract_symptoms(text),
\* text): it rests on the NLP pipeline's noun chunks, and is an input here.
\* The symptom list and the reasoning strings are not modelled.
predict_severity(symptom_text, symptom_score, vitals, duration) ==
  LET em == check_emergency_keywords(symptom_text) IN
  IF em.is_emergency THEN EmergencyResult(em.flags)
  ELSE LET va    == analyze_vitals(vitals)
           total == DurationModifier(CombineScores(symptom_score, va.score), duration)
           c     == Classify(total)
       IN  [severity_score |-> total, severity_level |-> c.severity_level,
            priority |-> c.priority, emergency_flags |-> em.flags,
            vital_abnormalities |-> va.abnormalities,
            rule_based_override |-> FALSE]

\* reassess_severity without the caps of min(.., 100) and max(.., 0).
reassess_severity_uncapped(original_score, follow_up_text, condition_change) ==
  LET adjusted == IF condition_change = "worsened" THEN original_score + 20
                  ELSE IF condition_change = "improved" THEN original_score - 15
                  ELSE original_score
      em        == check_emergency_keywords(follow_up_text)
      new_score == IF em.is_emergency THEN 100 ELSE adjusted
      c         == Classify(new_score)
  IN  [severity_score |-> new_score, severity_level |-> c.severity_level,
       priority |-> c.priority, emergency_flags |-> em.flags,
       score_change |-> new_score - original_score]

reassess_severity_worsened_only(original_score, follow_up_text, condition_change) ==
  LET adjusted == IF condition_change = "worsened" THEN Min(original_score + 20, 100)
                  ELSE IF condition_change = "improved" THEN Max(original_score - 15, 0)
                  ELSE original_score
      em        == check_emergency_keywords(follow_up_text)
      new_score == IF em.is_emergency /\ condition_change = "worsened"
                     THEN 100 ELSE adjusted
      c         == Classify(new_score)
  IN  [severity_score |-> new_score, severity_level |-> c.severity_level,
       priority |-> c.priority, emergency_flags |-> em.flags,
       score_change |-> new_score - original_score]

reassess_severity(original_score, follow_up_text, condition_change) ==
  LET adjusted == IF condition_change = "worsened" THEN Min(original_score + 20, 100)
                  ELSE IF condition_change = "improved" THEN Max(original_score - 15, 0)
                  ELSE original_score
      em        == check_emergency_keywords(follow_up_text)
      new_score == IF em.is_emergency THEN 100 ELSE adjusted
      c         == Classify(new_score)
  IN  [severity_score |-> new_score, severity_level |-> c.severity_level,
       priority |-> c.priority, emergency_flags |-> em.flags,
       score_change |-> new_score - original_score]

-----------------------------------------------------------------------------
(* Bounds and inputs of the service model.                                 *)

MaxVisits == 2      \* intake requests served
MaxTime   == 1      \* seconds the clock may advance between requests
MaxAlerts == 2      \* no new follow-up or sweep once this many alerts exist
MaxNotes  == 1      \* consultation notes saved
MaxFollowUps == 1   \* follow-up requests served
MaxRequests == 3    \* requests served, of any kind
MaxTokens == 1      \* device tokens registered for the doctors

\* Request handlers that may be in flight together.
Tasks   == {"t1", "t2"}
NoTask  == "none"
Sweeper == "sweeper"         \* the background task check_long_wait_task
Doctors == {"doctor_001"}
Absent  == "absent"          \* no doctor assigned

TxtIHave         == <<"I"," ","h","a","v","e"," ">>
TxtChestPain     == <<"c","h","e","s","t"," ","p","a","i","n">>
TxtChestPainCaps == <<"C","H","E","S","T"," ","P","a","i","n","s">>
TxtHeadache      == <<"m","i","l","d"," ","h","e","a","d","a","c","h","e">>
TxtSeizure       == <<"h","a","d"," ","a"," ","S","e","i","z","u","r","e">>
TxtChoking       == <<"c","h","o","k","i","n","g"," ","a","n","d"," ","o","v","e","r","d","o","s","e">>
\* "choKing now" written with the Kelvin sign, and "İll again" with I with
\* dot above.
TxtChoKelvin     == <<"c","h","o","U+212A","i","n","g"," ","n","o","w">>
TxtDottedI       == <<"U+0130","l","l"," ","a","g","a","i","n"," ","n","o","w">>

AllNormalVitals ==
  model_dump_exclude_none(
    [temperature |-> 370, heart_rate |-> 80, blood_pressure_systolic |-> 120,
     blood_pressure_diastolic |-> 80, respiratory_rate |-> 16,
     oxygen_saturation |-> 98, weight |-> 70])
\* The readings of an intake: a VitalsBase with two fields set.
FeverReadings == [temperature |-> 385, heart_rate |-> 80]
FeverVitals == model_dump_exclude_none(FeverReadings)

\* The JSON object the remote scorer answers with; a key may be missing.
RemoteResponses ==
  { [severity_score |-> 20, severity_level |-> "normal", priority |-> 3],
    [severity_score |-> 90, severity_level |-> "critical", priority |-> 3,
     vital_abnormalities |-> <<"Critical heart_rate: 130">>],
    [confidence |-> 10],
    [severity_score |-> 150, severity_level |-> "severe", priority |-> 1] }

\* f"{patient['first_name']} {patient['last_name']}"
PatientName(patient) ==
  IF patient = "namesake"
    THEN <<"E","m","e","r","g","e","n","c","y"," ","L","e","e">>
    ELSE <<"A","n","n"," ","L","e","e">>

\* An intake request: the visit's symptoms and vitals, and what the patient
\* document looks like ("ok", "missing", "bad_dob": a date_of_birth that
\* datetime.fromisoformat rejects, or "namesake": a patient whose first name
\* is Emergency).
Intake(text, patient) ==
  [symptom_text |-> text, symptom_score |-> 25, vitals |-> FeverReadings,
   duration |-> <<>>, patient |-> patient]

\* A mild complaint, of a patient named as most are and of the namesake.
HeadacheIntake == Intake(TxtHeadache, "ok")
NamesakeIntake == Intake(TxtHeadache, "namesake")

IntakeInputs ==
  { HeadacheIntake, Intake(TxtIHave \o TxtChestPainCaps, "ok"),
    Intake(TxtHeadache, "missing"), Intake(TxtHeadache, "bad_dob") }

\* A follow-up request: the reported change, and whether the patient
\* document is found.
FollowUpInputs ==
  { <<"improved", "ok">>, <<"same", "ok">>, <<"worsened", "ok">>,
    <<"worsened", "missing">> }

-----------------------------------------------------------------------------
(* services/firebase_service.py: the document store.                       *)

\* The place of the document id in doc_order.
PlaceOf(order, id) == CHOOSE k \in DOMAIN order : order[k] = id

\* add_to_queue stamps checked_in_at = datetime.utcnow(), in microseconds,
\* and the store gives the document a random id.  Of two documents checked
\* in within the same second of the model's clock either may be the earlier
\* one, or the one with the smaller id when the stamps are equal: the new
\* document goes behind every document of an earlier second, at any place
\* among those of its own.
Placed(order, id, t) ==
  { SubSeq(order, 1, p - 1) \o <<id>> \o SubSeq(order, p, Len(order)) :
      p \in { q \in 1..(Len(order) + 1) :
                \A k \in q..Len(order) :
                   \A e \in queue : e.id = order[k] => e.checked_in_at = t } }

Without(order, id) == SelectSeq(order, LAMBDA x : x # id)

\* get_queue: where status == 'waiting', order_by priority, checked_in_at
\* (and then by document id, as the store does).
DocBefore(a, b) ==
  \/ a.priority < b.priority
  \/ a.priority = b.priority /\ a.checked_in_at < b.checked_in_at
  \/ /\ a.priority = b.priority /\ a.checked_in_at = b.checked_in_at
     /\ PlaceOf(doc_order, a.id) < PlaceOf(doc_order, b.id)

RECURSIVE OrderedDocs(_)
OrderedDocs(S) ==
  IF S = {} THEN <<>>
  ELSE LET first == CHOOSE a \in S : \A b \in S \ {a} : DocBefore(a, b)
       IN  <<first>> \o OrderedDocs(S \ {first})

get_queue(q) == OrderedDocs({e \in q : e.status = "waiting"})

HasDoc(q, id) == \E e \in q : e.id = id
Doc(q, id)    == CHOOSE e \in q : e.id = id

\* DocumentReference.update(updates), and {**d, **updates}
Merge(d, updates) ==
  [x \in DOMAIN d \cup DOMAIN updates |->
     IF x \in DOMAIN updates THEN updates[x] ELSE d[x]]

\* update_queue_entry on a document that exists (update() of a missing
\* document raises NotFound; the callers below test HasDoc).
update_queue_entry(q, id, updates) ==
  (q \ {Doc(q, id)}) \cup {Merge(Doc(q, id), updates)}

remove_from_queue(q, id) == {e \in q : e.id # id}

\* StoreCallSuspends: whether awaiting a firebase_service coroutine hands
\* the event loop to another task.  Every method of FirebaseService is an
\* `async def` whose body makes blocking client calls and awaits nothing,
\* so awaiting it runs it to completion without suspending the caller.
StoreCallSuspendsAlways == TRUE

StoreCallSuspends == FALSE

-----------------------------------------------------------------------------
(* services/queue_manager.py                                               *)

wait_time_estimates == [critical |-> 0, moderate |-> 15, normal |-> 30]

CountCache(cache, levels) ==
  Cardinality({k \in DOMAIN cache : cache[k].severity_level \in levels})

calculate_wait_time(cache, severity_level) ==
  LET base_time == IF severity_level \in DOMAIN wait_time_estimates
                     THEN wait_time_estimates[severity_level] ELSE 30
      ahead == IF severity_level = "critical" THEN 0
               ELSE IF severity_level = "moderate" THEN CountCache(cache, {"critical"})
               ELSE CountCache(cache, {"critical", "moderate"})
  IN  base_time + ahead * 10

\* A sort key that reads the position the last refresh assigned.
KeyLessByLastPosition(a, b) == a.queue_position > b.queue_position

\* list.sort(key=lambda x: (x['priority'], x['checked_in_at'])): stable.
KeyLess(a, b) ==
  \/ a.priority < b.priority
  \/ a.priority = b.priority /\ a.checked_in_at < b.checked_in_at

RECURSIVE InsertStable(_, _)
InsertStable(sorted, x) ==
  IF sorted = <<>> THEN <<x>>
  ELSE IF KeyLess(x, sorted[Len(sorted)])
         THEN Append(InsertStable(SubSeq(sorted, 1, Len(sorted) - 1), x),
                     sorted[Len(sorted)])
         ELSE Append(sorted, x)

RECURSIVE SortByKey(_)
SortByKey(list) ==
  IF list = <<>> THEN <<>>
  ELSE InsertStable(SortByKey(SubSeq(list, 1, Len(list) - 1)), list[Len(list)])

PriorityOfLevel(level) ==
  IF level = "critical" THEN 1 ELSE IF level = "moderate" THEN 2 ELSE 3

\* The position (1-based) of the first cache entry for the visit, 0 if none:
\* the `for e in self.queue_cache` lookup of update_severity, call_patient
\* and complete_visit.
FindInCache(cache, visit_id) ==
  IF \E k \in DOMAIN cache : cache[k].visit_id = visit_id
    THEN CHOOSE k \in DOMAIN cache :
           /\ cache[k].visit_id = visit_id
           /\ \A j \in 1..(k - 1) : cache[j].visit_id # visit_id
    ELSE 0

-----------------------------------------------------------------------------
(* Tasks: one request handler each, run by a single event loop.  A handler *)
(* keeps the loop until it awaits something that suspends.                 *)

IdleTask ==
  [op |-> "idle", pc |-> "idle", visit |-> 0, inp |-> None, ai |-> None,
   raw |-> None, res |-> None, old |-> None, snap |-> <<>>, i |-> 0,
   shares |-> FALSE, sent |-> <<>>, j |-> 0, start |-> <<>>,
   wrote |-> <<>>, upd |-> <<>>, ret |-> None]

CanRun(t) == running = t \/ running = NoTask

\* check_long_wait_task between two sweeps: in asyncio.sleep(300).
SleepingSweep == [IdleTask EXCEPT !.op = "sweep", !.pc = "sleeping"]

\* entry[key] = value for each field of `written`, on the dict of the cache
\* whose id is `id`, as the tasks ts see it.  The sweep's list holds the
\* cache's own dicts (check_long_wait_patients appends `entry` itself), so
\* while the cache is the list the sweep read (shares) the write shows in
\* the sweep's list as well.
WrittenInPlace(ts, id, written) ==
  LET list == ts[Sweeper].snap IN
  IF ts[Sweeper].shares
    THEN [ts EXCEPT ![Sweeper].snap =
            [k \in DOMAIN list |->
               IF list[k].entry.id = id
                 THEN [list[k] EXCEPT !.entry = Merge(list[k].entry, written)]
                 ELSE list[k]]]
    ELSE ts

\* A new request is served by the first free handler.
Free(t) ==
  /\ tasks[t].op = "idle"
  /\ running = NoTask
  /\ t = "t1" \/ tasks["t1"].op # "idle"
  /\ served + Cardinality({u \in Tasks : tasks[u].op # "idle"}) < MaxRequests
AfterStoreCall(t) == IF StoreCallSuspends THEN NoTask ELSE t

ServiceInit ==
  /\ useFallback \in BOOLEAN
  /\ active_connections = <<>>
  /\ visits = <<>>
  /\ triage_results = <<>>
  /\ queue = {}
  /\ doc_order = <<>>
  /\ alerts = <<>>
  /\ doctor_notes = <<>>
  /\ queue_cache = <<>>
  /\ cacheOwner = NoTask
  /\ tasks = [t \in Tasks \cup {Sweeper} |->
                IF t = Sweeper THEN SleepingSweep ELSE IdleTask]
  /\ running = NoTask
  /\ now = 0
  /\ follow_ups = 0
  /\ served = 0

Init ==
  /\ ServiceInit
  /\ sc_in = <<>>
  /\ sc_out = <<>>

-----------------------------------------------------------------------------
(* services/real_ai_service.py: the remote scorer's answer, mapped.        *)

\* dict.get(key, default)
Get(d, key, default) == IF key \in DOMAIN d THEN d[key] ELSE default

\* comprehensive_assessment, lines 189-206: result.get(key, default).
MapRemote(r) ==
  [score      |-> Get(r, "severity_score", 50),
   level      |-> Get(r, "severity_level", "moderate"),
   priority   |-> Get(r, "priority", 2),
   waitTime   |-> IF Get(r, "severity_level", None) = "critical" THEN 0
                  ELSE IF Get(r, "severity_level", None) = "moderate" THEN 15
                  ELSE 30,
   vitalFlags |-> Get(r, "vital_abnormalities", <<>>),
   aiPowered  |-> TRUE]

\* ai_engine.predict_severity on the visit's own input, the vitals as
\* visit.vitals.model_dump(exclude_none=True): the dict both fallbacks of the
\* intake use.  Its keys are severity_score, severity_level, ...
RuleBased(inp) ==
  predict_severity(inp.symptom_text, inp.symptom_score,
                   model_dump_exclude_none(inp.vitals), inp.duration)

-----------------------------------------------------------------------------
(* services/notification_service.py                                        *)

EmergencyWord == <<"e","m","e","r","g","e","n","c","y">>

\* 'emergency' in message.lower().  Every message is the patient's name set
\* in a text of its alert type, with levels, scores and abnormality texts;
\* of these only the name can hold the word in the model.
MentionsEmergency(patient_name) == Contains(EmergencyWord, Lower(patient_name))

\* create_alert, lines 54-61: high or medium by the priority of the alert
\* type, then critical for a type or a message that says so.
AlertSeverity(alert_type, patient_name) ==
  IF alert_type = "new_critical" \/ MentionsEmergency(patient_name) THEN "critical"
  ELSE IF alert_type = "long_wait" THEN "medium"
  ELSE "high"

create_alert(as, alert_type, visit_id, patient_name) ==
  Append(as, [type |-> alert_type,
              severity |-> AlertSeverity(alert_type, patient_name),
              visit_id |-> visit_id, acknowledged |-> FALSE])

\* notify_severity_change: new_critical when the new level is critical,
\* severity_change otherwise.
notify_severity_change(as, visit_id, patient_name, new_severity) ==
  create_alert(as, IF new_severity = "critical" THEN "new_critical"
                   ELSE "severity_change", visit_id, patient_name)

\* One push delivery: how many device tokens get_doctor_devices found, and
\* what messaging.send_multicast did with them (it raised, or it returned
\* a response that counts ok successes).
Deliveries ==
  { [tokens |-> n, raised |-> r, ok |-> k] :
      n \in 0..MaxTokens, r \in BOOLEAN, k \in 0..MaxTokens }

PossibleDeliveries ==
  { d \in Deliveries : /\ d.ok <= d.tokens
                       /\ d.raised => d.ok = 0
                       /\ d.tokens = 0 => ~d.raised }

\* An exception that leaves a call, in place of its return value.
Raised(what) == [exception |-> what]
Raises(result) == "exception" \in DOMAIN result

send_multicast_notification_uncaught(d) ==
  IF d.raised THEN Raised("messaging")
  ELSE [success_count |-> d.ok, failure_count |-> d.tokens - d.ok]

\* FirebaseService.send_multicast_notification: the response's counts, or
\* every token counted as a failure when anything raised.
send_multicast_notification(d) ==
  IF d.raised THEN [success_count |-> 0, failure_count |-> d.tokens]
  ELSE [success_count |-> d.ok, failure_count |-> d.tokens - d.ok]

\* send_notification_to_doctors: what it returns (its callers, the
\* notify_* methods, drop it).
send_notification_to_doctors(d) ==
  IF d.tokens = 0
    THEN [success |-> FALSE, message |-> "No device tokens found"]
    ELSE LET result == send_multicast_notification(d)
         IN  IF Raises(result) THEN result
             ELSE [success |-> TRUE, sent_to |-> d.tokens,
                   success_count |-> result.success_count,
                   failure_count |-> result.failure_count]

\* An alert's document id is its index in the collection.
WithId(as) == [k \in DOMAIN as |-> Merge(as[k], [id |-> k])]

Reverse(s) == [k \in 1..Len(s) |-> s[Len(s) + 1 - k]]

Unacknowledged(a) == a.acknowledged = FALSE

\* where acknowledged == False, order_by created_at descending: the newest
\* first (alerts are kept in creation order).
get_active_alerts(as) == Reverse(SelectSeq(WithId(as), Unacknowledged))

-----------------------------------------------------------------------------
(* routes/triage.py: assess_patient                                        *)

\* create_visit: the new document, with the request's symptoms and
\* visit.vitals.model_dump().
NewVisit(inp) ==
  [status |-> "waiting",
   symptoms |-> [symptom_text |-> inp.symptom_text],
   vitals |-> model_dump(inp.vitals)]

Response(code, detail) == [status |-> code, detail |-> detail]

\* The notify_* calls of the handler of task t, whose alerts in their order
\* are those `planned` has beyond the stored ones: each call creates its
\* alert and then pushes, and a push that raised would end the handler
\* there.  tk is the task so far and response what the handler returns.
Notify(t, tk, planned, response) ==
  LET m == Len(planned) - Len(alerts) IN
  \E ds \in [1..m -> PossibleDeliveries] :
    LET results == [k \in 1..m |-> send_notification_to_doctors(ds[k])]
        failed  == {k \in 1..m : Raises(results[k])}
        last    == IF failed = {} THEN m
                   ELSE CHOOSE k \in failed : \A j \in failed : k <= j
    IN
    /\ alerts' = SubSeq(planned, 1, Len(alerts) + last)
    /\ tasks' = [tasks EXCEPT ![t] =
                   [tk EXCEPT !.pc = "done",
                              !.sent = SubSeq(results, 1, last),
                              !.ret = IF failed # {}
                                        THEN Response(500, "Internal Server Error")
                                        ELSE response]]

\* Steps 4-7 of assess_patient with triage result tr, for the task record tk
\* over the visits vs: save the triage result, update the visit, build the
\* queue entry and hand it to QueueManager.add_to_queue, up to its call of
\* refresh_queue.  tr['score'] raises KeyError when tr has no such key.
AssessPipeline(t, tk, vs, tr) ==
  LET v   == tk.visit
      tid == Len(triage_results) + 1
  IN
  /\ triage_results' = Append(triage_results,
                              [id |-> tid, visit_id |-> v, result |-> tr])
  /\ IF "score" \in DOMAIN tr
       THEN LET entry ==
                  [id |-> v, visit_id |-> v,
                   patient_name |-> PatientName(tk.inp.patient),
                   severity_level |-> tr.level, severity_score |-> tr.score,
                   priority |-> tr.priority, queue_position |-> 0,
                   estimated_wait_time |-> calculate_wait_time(queue_cache, tr.level),
                   checked_in_at |-> now, status |-> "waiting",
                   assigned_doctor_id |-> Absent]
            IN  /\ visits' = [vs EXCEPT ![v] = Merge(@,
                                  [triage_score |-> tr.score,
                                   severity_level |-> tr.level,
                                   triage_result_id |-> tid])]
                /\ doc_order' \in Placed(doc_order, v, now) /\ queue' = queue \cup {entry}
                /\ tasks' = [tasks EXCEPT ![t] =
                               [tk EXCEPT !.pc = "refresh_read", !.res = tr,
                                          !.ret = entry]]
                /\ running' = AfterStoreCall(t)
       ELSE /\ visits' = vs
            /\ doc_order' = doc_order /\ queue' = queue
            /\ tasks' = [tasks EXCEPT ![t] =
                           [tk EXCEPT !.pc = "done", !.res = tr,
                                      !.ret = Response(500, "KeyError")]]
            /\ running' = t
  /\ UNCHANGED <<useFallback, active_connections, alerts, doctor_notes, queue_cache, cacheOwner,
                 now, scorerVars, follow_ups, served>>

\* The handler ends here with this response, the store as it is (but for
\* the visits vs and the notes, which the caller states).
EndWith(t, tk, vs, code, detail) ==
  /\ visits' = vs
  /\ tasks' = [tasks EXCEPT ![t] =
                 [tk EXCEPT !.pc = "done", !.ret = Response(code, detail)]]
  /\ running' = t
  /\ UNCHANGED <<useFallback, active_connections, triage_results, queue, doc_order, alerts,
                 queue_cache, cacheOwner, now, scorerVars, follow_ups, served>>

\* The request's failure with nothing further done: HTTPException.
Fail(t, tk, vs, code, detail) ==
  /\ EndWith(t, tk, vs, code, detail)
  /\ UNCHANGED doctor_notes

\* What assess_patient does once the scorer call has failed (cause: the
\* remote call failed, or it timed out).  comprehensive_assessment's own
\* handler returns the rule-based dict when the fallback is enabled and
\* raises otherwise; the route's handler then fails with 500.
AssessAfterFailureAlwaysFallback(t, tk, vs) ==
  AssessPipeline(t, tk, vs, RuleBased(tk.inp))

AssessAfterFailure(t, tk, vs) ==
  IF useFallback
    THEN AssessPipeline(t, tk, vs, RuleBased(tk.inp))
    ELSE Fail(t, tk, vs, 500, "AI Analysis Failed")

\* POST /triage/assess, up to the remote scorer call.
AssessRequest(t, inp) ==
  /\ Free(t)
  /\ Len(visits) < MaxVisits
  /\ LET v  == Len(visits) + 1
         vs == Append(visits, NewVisit(inp))
         tk == [IdleTask EXCEPT !.op = "assess", !.visit = v, !.inp = inp]
     IN  IF inp.patient = "missing"
           THEN Fail(t, tk, vs, 404, "Patient not found")
         ELSE IF inp.patient = "bad_dob"
           \* calculate_age raises inside the try, before any remote call;
           \* the route's own fallback adds aiPowered to the rule-based dict
           THEN IF useFallback
                  THEN AssessPipeline(t, [tk EXCEPT !.ai = "raised"], vs,
                                      Merge(RuleBased(inp), [aiPowered |-> FALSE]))
                  ELSE Fail(t, [tk EXCEPT !.ai = "raised"], vs, 500,
                            "AI Analysis Failed")
         ELSE /\ visits' = vs
              /\ tasks' = [tasks EXCEPT ![t] = [tk EXCEPT !.pc = "scoring"]]
              /\ running' = NoTask
              /\ UNCHANGED <<useFallback, active_connections, triage_results, queue, doc_order, alerts,
                             doctor_notes, queue_cache, cacheOwner, now,
                             scorerVars, follow_ups, served>>

-----------------------------------------------------------------------------
(* routes/triage.py: follow_up_assessment                                  *)

FollowUpText == TxtHeadache

\* The condition_change of a request, as text.
ChangeText(change) ==
  IF change = "improved" THEN <<"i","m","p","r","o","v","e","d">>
  ELSE IF change = "worsened" THEN <<"w","o","r","s","e","n","e","d">>
  ELSE <<"s","a","m","e">>

\* f"Original: {...}\n\nFollow-up: {...}\nCondition change: {...}"
combined_symptoms(original, symptoms_update, change) ==
  <<"O","r","i","g","i","n","a","l",":"," ">> \o original
  \o <<"\n","\n","F","o","l","l","o","w","-","u","p",":"," ">> \o symptoms_update
  \o <<"\n","C","o","n","d","i","t","i","o","n"," ","c","h","a","n","g","e",":"," ">>
  \o ChangeText(change)

\* duration="Follow-up assessment"
DurFollowUp == <<"F","o","l","l","o","w","-","u","p"," ","a","s","s","e","s","s","m","e","n","t">>

Abs(x) == IF x < 0 THEN -x ELSE x

\* The alerts of a follow-up whose queue update was attempted.
FollowUpAlerts(as, v, patient_name, change, new_severity, old_severity) ==
  IF change = "worsened" THEN create_alert(as, "follow_up_worsening", v, patient_name)
  ELSE IF new_severity = "critical" /\ old_severity # "critical"
    THEN notify_severity_change(as, v, patient_name, new_severity)
  ELSE as

\* The dict update_severity returns for the cache entry it found.
update_severity_flags_tied(entry, new_severity_score, new_severity_level) ==
  LET new_priority == PriorityOfLevel(new_severity_level) IN
  [entry |-> [entry EXCEPT !.severity_score = new_severity_score,
                           !.severity_level = new_severity_level,
                           !.priority = new_priority],
   severity_changed |-> entry.severity_level # new_severity_level,
   position_changed |-> entry.severity_level # new_severity_level,
   old_severity |-> entry.severity_level,
   new_severity |-> new_severity_level]

update_severity_result(entry, new_severity_score, new_severity_level) ==
  LET new_priority == PriorityOfLevel(new_severity_level) IN
  [entry |-> [entry EXCEPT !.severity_score = new_severity_score,
                           !.severity_level = new_severity_level,
                           !.priority = new_priority],
   severity_changed |-> entry.severity_level # new_severity_level,
   position_changed |-> entry.priority # new_priority,
   old_severity |-> entry.severity_level,
   new_severity |-> new_severity_level]

\* What follow_up_assessment returns.
FollowUpResponse(reassessment, old_severity) ==
  [status |-> 200, reassessment |-> reassessment,
   severity_changed |-> reassessment.level # old_severity]

\* follow_up_assessment from `new_score = reassessment['score']` on, with
\* tk.old the visit as it was read before the scorer call.
FollowUpPipeline(t, tk, reassessment) ==
  LET v == tk.visit IN
  IF "score" \notin DOMAIN reassessment
    THEN Fail(t, [tk EXCEPT !.res = reassessment], visits, 500, "KeyError")
  ELSE
    LET new_score    == reassessment.score
        new_severity == reassessment.level
        vs == [visits EXCEPT ![v] = Merge(@,
                 [triage_score |-> new_score, severity_level |-> new_severity,
                  condition_change |-> tk.inp.condition_change])]
        k  == FindInCache(queue_cache, v)
        tr == [tk EXCEPT !.res = reassessment]
    IN
    /\ visits' = vs
    /\ UNCHANGED <<useFallback, active_connections, triage_results, doctor_notes, cacheOwner, now,
                   scorerVars, follow_ups, served>>
    /\ IF new_severity # tk.old.level \/ Abs(new_score - tk.old.score) > 10
         THEN IF k = 0
                \* update_severity returns its error; the route goes on
                \* to its notification and its response
                THEN /\ Notify(t, [tr EXCEPT !.upd = <<[error |-> "Entry not found in queue"]>>],
                               FollowUpAlerts(alerts, v, PatientName(tk.inp.patient),
                                              tk.inp.condition_change,
                                              new_severity, tk.old.level),
                               FollowUpResponse(reassessment, tk.old.level))
                     /\ running' = t
                     /\ UNCHANGED <<queue, doc_order, queue_cache>>
              ELSE IF ~HasDoc(queue, queue_cache[k].id)
                \* update_severity has overwritten the cache entry when
                \* update_queue_entry raises for the missing document
                THEN /\ queue_cache' =
                          [queue_cache EXCEPT ![k].severity_score = new_score,
                                              ![k].severity_level = new_severity,
                                              ![k].priority = PriorityOfLevel(new_severity)]
                     /\ tasks' = WrittenInPlace(
                                    [tasks EXCEPT ![t] =
                                       [tr EXCEPT !.pc = "done",
                                                  !.ret = Response(500, "NotFound")]],
                                    queue_cache[k].id,
                                    [severity_score |-> new_score,
                                     severity_level |-> new_severity,
                                     priority |-> PriorityOfLevel(new_severity)])
                     /\ running' = t
                     /\ UNCHANGED <<queue, doc_order, alerts>>
              ELSE /\ queue_cache' =
                        [queue_cache EXCEPT ![k].severity_score = new_score,
                                            ![k].severity_level = new_severity,
                                            ![k].priority = PriorityOfLevel(new_severity)]
                   /\ doc_order' = doc_order /\ queue' = update_queue_entry(queue, queue_cache[k].id,
                        [severity_score |-> new_score,
                         severity_level |-> new_severity,
                         priority |-> PriorityOfLevel(new_severity)])
                   \* what update_severity returns once its refresh is done:
                   \* old_severity and old_priority were read before the
                   \* overwrite, entry is the overwritten cache entry
                   /\ tasks' = WrittenInPlace(
                        [tasks EXCEPT ![t] =
                           [tr EXCEPT !.pc = "refresh_read",
                                      !.upd = <<update_severity_result(
                                                  queue_cache[k], new_score, new_severity)>>]],
                        queue_cache[k].id,
                        [severity_score |-> new_score,
                         severity_level |-> new_severity,
                         priority |-> PriorityOfLevel(new_severity)])
                   /\ running' = AfterStoreCall(t)
                   /\ UNCHANGED alerts
         ELSE /\ tasks' = [tasks EXCEPT ![t] =
                             [tr EXCEPT !.pc = "done",
                                        !.ret = FollowUpResponse(reassessment,
                                                                 tk.old.level)]]
              /\ running' = t
              /\ UNCHANGED <<queue, doc_order, queue_cache, alerts>>

\* Once the scorer call has failed: comprehensive_assessment's handler
\* returns predict_severity's dict (fallback enabled) or raises.
FollowUpAfterFailure(t, tk) ==
  IF useFallback
    THEN FollowUpPipeline(t, tk,
           predict_severity(
             combined_symptoms(tk.old.symptom_text, FollowUpText,
                               tk.inp.condition_change),
             25, tk.old.vitals, DurFollowUp))
    ELSE Fail(t, tk, visits, 500, "AI Analysis Failed")

\* POST /triage/follow-up, up to the remote scorer call.  patient "missing":
\* get_patient returns None and patient['date_of_birth'] raises in the try.
FollowUpRequestWithin(limit, t, v, change, patient) ==
  /\ Free(t)
  /\ v \in 1..Len(visits)
  /\ Len(alerts) < MaxAlerts
  /\ follow_ups + Cardinality({u \in Tasks : tasks[u].op = "follow_up"})
       < limit
  /\ LET old == [score |-> Get(visits[v], "triage_score", 0),
                 level |-> Get(visits[v], "severity_level", "normal"),
                 symptom_text |-> visits[v].symptoms.symptom_text,
                 vitals |-> visits[v].vitals]
         tk  == [IdleTask EXCEPT !.op = "follow_up", !.visit = v, !.old = old,
                                 !.inp = [condition_change |-> change,
                                         patient |-> patient]]
     IN  IF patient = "missing"
           THEN IF useFallback
                  THEN FollowUpPipeline(t, [tk EXCEPT !.ai = "raised"],
                         reassess_severity(old.score, FollowUpText, change))
                  ELSE Fail(t, [tk EXCEPT !.ai = "raised"], visits, 500,
                            "AI Analysis Failed")
           ELSE /\ tasks' = [tasks EXCEPT ![t] = [tk EXCEPT !.pc = "scoring"]]
                /\ running' = NoTask
                /\ UNCHANGED <<useFallback, active_connections, storeVars, queue_cache, cacheOwner,
                               now, scorerVars, follow_ups, served>>

FollowUpRequest(t, v, change, patient) ==
  FollowUpRequestWithin(MaxFollowUps, t, v, change, patient)

-----------------------------------------------------------------------------
(* The remote scorer call ends: aiohttp resumes the handler.               *)

\* The remote scorer answered 200 with the JSON object r.
ScorerResponds(t, r) ==
  /\ tasks[t].pc = "scoring"
  /\ running = NoTask
  /\ LET tk == [tasks[t] EXCEPT !.ai = "ok", !.raw = r] IN
     IF tk.op = "assess" THEN AssessPipeline(t, tk, visits, MapRemote(r))
     ELSE FollowUpPipeline(t, tk, MapRemote(r))

\* The remote call failed: a status other than 200, a connection error, or a
\* body json.loads rejects.
ScorerFails(t) ==
  /\ tasks[t].pc = "scoring"
  /\ running = NoTask
  /\ LET tk == [tasks[t] EXCEPT !.ai = "failed"] IN
     IF tk.op = "assess" THEN AssessAfterFailure(t, tk, visits)
     ELSE FollowUpAfterFailure(t, tk)

\* The remote scorer has not answered.  aiohttp.ClientSession() is built
\* with no timeout argument, so the client's default total timeout (300 s)
\* ends the request with asyncio.TimeoutError, an Exception like any other.
ScorerTimeout(t) ==
  /\ tasks[t].pc = "scoring"
  /\ running = NoTask
  /\ LET tk == [tasks[t] EXCEPT !.ai = "timeout"] IN
     IF tk.op = "assess" THEN AssessAfterFailure(t, tk, visits)
     ELSE FollowUpAfterFailure(t, tk)

-----------------------------------------------------------------------------
(* routes/doctor.py and QueueManager: call, complete, notes, statistics.   *)

\* POST /doctor/call-patient: QueueManager.call_patient up to refresh_queue.
CallPatient(t, v, doctor_id) ==
  /\ Free(t)
  /\ LET k  == FindInCache(queue_cache, v)
         tk == [IdleTask EXCEPT !.op = "call", !.visit = v]
     IN  IF k = 0 THEN Fail(t, tk, visits, 404, "Entry not found")
         ELSE IF ~HasDoc(queue, queue_cache[k].id)
           THEN Fail(t, tk, visits, 500, "NotFound")
         ELSE /\ doc_order' = doc_order /\ queue' = update_queue_entry(queue, queue_cache[k].id,
                   [status |-> "in_progress",
                    assigned_doctor_id |-> doctor_id])
              /\ visits' = [visits EXCEPT ![v] = Merge(@,
                                [status |-> "in_progress",
                                 assigned_doctor_id |-> doctor_id])]
              /\ tasks' = [tasks EXCEPT ![t] =
                             [tk EXCEPT !.pc = "refresh_read",
                                        !.ret = queue_cache[k]]]
              /\ running' = AfterStoreCall(t)
              /\ UNCHANGED <<useFallback, active_connections, triage_results, alerts, doctor_notes,
                             queue_cache, cacheOwner, now, scorerVars, follow_ups, served>>

complete_visit_marks_visit(t, tk, vs, notFound) ==
  LET v == tk.visit
      k == FindInCache(queue_cache, v)
  IN  IF k = 0
        THEN EndWith(t, tk,
                     IF v \in DOMAIN vs
                       THEN [vs EXCEPT ![v] = Merge(@, [status |-> "completed",
                                                        completed_at |-> now])]
                       ELSE vs,
                     notFound.status, notFound.detail)
      ELSE /\ doc_order' = Without(doc_order, queue_cache[k].id) /\ queue' = remove_from_queue(queue, queue_cache[k].id)
           /\ visits' = [vs EXCEPT ![v] = Merge(@,
                             [status |-> "completed", completed_at |-> now])]
           /\ tasks' = [tasks EXCEPT ![t] = [tk EXCEPT !.pc = "refresh_read"]]
           /\ running' = AfterStoreCall(t)
           /\ UNCHANGED <<useFallback, active_connections, triage_results, alerts, queue_cache,
                          cacheOwner, now, scorerVars, follow_ups, served>>

\* QueueManager.complete_visit up to refresh_queue, for the task record tk
\* over the visits vs; notFound is the response when the cache has no entry.
complete_visit(t, tk, vs, notFound) ==
  LET v == tk.visit
      k == FindInCache(queue_cache, v)
  IN  IF k = 0 THEN EndWith(t, tk, vs, notFound.status, notFound.detail)
      ELSE /\ doc_order' = Without(doc_order, queue_cache[k].id) /\ queue' = remove_from_queue(queue, queue_cache[k].id)
           /\ visits' = [vs EXCEPT ![v] = Merge(@,
                             [status |-> "completed", completed_at |-> now])]
           /\ tasks' = [tasks EXCEPT ![t] = [tk EXCEPT !.pc = "refresh_read"]]
           /\ running' = AfterStoreCall(t)
           /\ UNCHANGED <<useFallback, active_connections, triage_results, alerts, queue_cache,
                          cacheOwner, now, scorerVars, follow_ups, served>>

\* POST /doctor/complete-visit
CompleteVisit(t, v) ==
  /\ Free(t)
  /\ complete_visit(t, [IdleTask EXCEPT !.op = "complete", !.visit = v],
                    visits, Response(404, "Entry not found"))
  /\ UNCHANGED doctor_notes

\* POST /doctor/save-notes: the note is saved, the visit is marked
\* completed, and complete_visit's result is not looked at.  For a visit_id
\* that no visit has, the note is saved all the same and update_visit then
\* raises NotFound.
SaveNotes(t, v) ==
  /\ Free(t)
  /\ Len(doctor_notes) < MaxNotes
  /\ doctor_notes' = Append(doctor_notes, v)
  /\ IF v \in 1..Len(visits)
       THEN complete_visit(t, [IdleTask EXCEPT !.op = "notes", !.visit = v],
                           [visits EXCEPT ![v] = Merge(@, [status |-> "completed"])],
                           Response(200, "Notes saved successfully"))
       ELSE EndWith(t, [IdleTask EXCEPT !.op = "notes", !.visit = v], visits,
                    500, "NotFound")

\* GET /doctor/queue, GET /doctor/statistics and the queue websocket:
\* get_queue_statistics starts with refresh_queue.
GetStatistics(t) ==
  /\ Free(t)
  /\ tasks' = [tasks EXCEPT ![t] =
                 [IdleTask EXCEPT !.op = "stats", !.pc = "refresh_read"]]
  /\ running' = t
  /\ UNCHANGED <<useFallback, active_connections, storeVars, queue_cache, cacheOwner, now,
                 scorerVars, follow_ups, served>>

-----------------------------------------------------------------------------
(* QueueManager.refresh_queue, one store call per step.                    *)

Ids(list) == [k \in DOMAIN list |-> list[k].id]

\* self.queue_cache = await get_queue(); self.queue_cache.sort(...)
RefreshRead(t) ==
  /\ tasks[t].pc = "refresh_read"
  /\ CanRun(t)
  /\ LET list == SortByKey(get_queue(queue)) IN
     /\ queue_cache' = list
     /\ cacheOwner' = t
     \* the list the sweep read, if it is in a sweep, is the cache no more
     /\ tasks' = [tasks EXCEPT ![t].pc = "refresh_write",
                               ![t].snap = Ids(list), ![t].i = 1,
                               ![Sweeper].shares = FALSE]
  /\ running' = AfterStoreCall(t)
  /\ UNCHANGED <<useFallback, active_connections, storeVars, now, scorerVars, follow_ups, served>>

\* One turn of `for position, entry in enumerate(self.queue_cache, start=1)`:
\* the position is set on the listed dict and written to the store.  The
\* loop runs over the list this refresh built (snap); queue_cache is that
\* list unless a later refresh has replaced it.
RefreshWriteFromZero(t) ==
  /\ tasks[t].pc = "refresh_write"
  /\ tasks[t].i <= Len(tasks[t].snap)
  /\ CanRun(t)
  /\ LET i  == tasks[t].i
         id == tasks[t].snap[i]
         \* entry['queue_position'] = position, on a dict of the cache
         Positioned(ts) ==
           IF cacheOwner = t
             THEN WrittenInPlace(ts, id, [queue_position |-> i - 1])
             ELSE ts
     IN  /\ queue_cache' = IF cacheOwner = t
                             THEN [queue_cache EXCEPT ![i].queue_position = i - 1]
                             ELSE queue_cache
         /\ IF HasDoc(queue, id)
              THEN /\ doc_order' = doc_order /\ queue' = update_queue_entry(queue, id,
                        [queue_position |-> i - 1])
                   /\ tasks' = Positioned([tasks EXCEPT ![t].i = i + 1])
                   /\ running' = AfterStoreCall(t)
              ELSE /\ doc_order' = doc_order /\ queue' = queue
                   /\ tasks' = Positioned(
                                  [tasks EXCEPT ![t].pc = "done",
                                                ![t].ret = Response(500, "NotFound")])
                   /\ running' = t
  /\ UNCHANGED <<useFallback, active_connections, visits, triage_results, alerts, doctor_notes,
                 cacheOwner, now, scorerVars, follow_ups, served>>

RefreshWrite(t) ==
  /\ tasks[t].pc = "refresh_write"
  /\ tasks[t].i <= Len(tasks[t].snap)
  /\ CanRun(t)
  /\ LET i  == tasks[t].i
         id == tasks[t].snap[i]
         \* entry['queue_position'] = position, on a dict of the cache
         Positioned(ts) ==
           IF cacheOwner = t
             THEN WrittenInPlace(ts, id, [queue_position |-> i])
             ELSE ts
     IN  /\ queue_cache' = IF cacheOwner = t
                             THEN [queue_cache EXCEPT ![i].queue_position = i]
                             ELSE queue_cache
         /\ IF HasDoc(queue, id)
              THEN /\ doc_order' = doc_order /\ queue' = update_queue_entry(queue, id,
                        [queue_position |-> i])
                   /\ tasks' = Positioned([tasks EXCEPT ![t].i = i + 1])
                   /\ running' = AfterStoreCall(t)
              ELSE /\ doc_order' = doc_order /\ queue' = queue
                   /\ tasks' = Positioned(
                                  [tasks EXCEPT ![t].pc = "done",
                                                ![t].ret = Response(500, "NotFound")])
                   /\ running' = t
  /\ UNCHANGED <<useFallback, active_connections, visits, triage_results, alerts, doctor_notes,
                 cacheOwner, now, scorerVars, follow_ups, served>>

\* get_queue_statistics after its refresh.
Statistics(cache) ==
  LET total == Len(cache)
      RECURSIVE SumWait(_)
      SumWait(k) == IF k = 0 THEN 0
                    ELSE SumWait(k - 1) + cache[k].estimated_wait_time
  IN  [status |-> 200,
       total_patients |-> total,
       critical_count |-> CountCache(cache, {"critical"}),
       moderate_count |-> CountCache(cache, {"moderate"}),
       normal_count   |-> CountCache(cache, {"normal"}),
       average_wait_time |-> IF total > 0 THEN SumWait(total) \div total ELSE 0]

\* refresh_queue has returned: the rest of the handler, to its response.
Finish(t) ==
  /\ tasks[t].pc = "refresh_write"
  /\ tasks[t].i > Len(tasks[t].snap)
  /\ tasks[t].op # "ws_queue"
  /\ CanRun(t)
  /\ LET tk == tasks[t]
         v  == tk.visit
         \* the alerts of the handler's notify_* calls, in their order
         planned ==
          IF tk.op = "assess"
            THEN LET a1 == IF tk.res.level = "critical"
                             THEN notify_severity_change(alerts, v, tk.ret.patient_name,
                                                         "critical")
                             ELSE alerts
                 IN  IF tk.res.vitalFlags # <<>>
                       THEN create_alert(a1, "vital_deterioration", v,
                                          tk.ret.patient_name)
                       ELSE a1
          ELSE IF tk.op = "follow_up"
            THEN FollowUpAlerts(alerts, v, PatientName(tk.inp.patient),
                                                 tk.inp.condition_change,
                                tk.res.level, tk.old.level)
          ELSE alerts
     IN
     Notify(t, tk, planned,
            IF tk.op = "assess"
              THEN [status |-> 200, queue_entry |-> tk.ret, triage_result |-> tk.res]
            ELSE IF tk.op = "follow_up" THEN FollowUpResponse(tk.res, tk.old.level)
            ELSE IF tk.op = "call" THEN [status |-> 200, entry |-> tk.ret]
            ELSE IF tk.op = "stats" THEN Statistics(queue_cache)
            ELSE IF tk.op = "notes" THEN Response(200, "Notes saved successfully")
            ELSE Response(200, "Visit completed successfully"))
  /\ running' = t
  /\ UNCHANGED <<useFallback, active_connections, visits, triage_results, queue, doc_order, doctor_notes,
                 queue_cache, cacheOwner, now, scorerVars, follow_ups, served>>

\* The handler returns, its response is sent, and the event loop is free
\* for the next task.
Return(t) ==
  /\ tasks[t].pc = "done"
  /\ tasks[t].op # "ws_queue"
  /\ running = t
  /\ running' = NoTask
  /\ tasks' = [tasks EXCEPT ![t] = IdleTask]
  /\ follow_ups' = IF tasks[t].op = "follow_up" THEN follow_ups + 1
                   ELSE follow_ups
  /\ served' = served + 1
  /\ UNCHANGED <<useFallback, active_connections, storeVars, queue_cache, cacheOwner, now,
                 scorerVars>>

Tick ==
  /\ now < MaxTime
  /\ running = NoTask
  /\ now' = now + 1
  /\ UNCHANGED <<useFallback, active_connections, storeVars, queue_cache, cacheOwner, tasks,
                 running, scorerVars, follow_ups, served>>

Next ==
  \/ \E t \in Tasks, inp \in IntakeInputs : AssessRequest(t, inp)
  \/ \E t \in Tasks, v \in 1..MaxVisits, f \in FollowUpInputs :
        FollowUpRequest(t, v, f[1], f[2])
  \/ \E t \in Tasks, r \in RemoteResponses : ScorerResponds(t, r)
  \/ \E t \in Tasks : ScorerFails(t)
  \/ \E t \in Tasks : ScorerTimeout(t)
  \/ \E t \in Tasks, v \in 1..MaxVisits, d \in Doctors : CallPatient(t, v, d)
  \/ \E t \in Tasks, v \in 1..MaxVisits : CompleteVisit(t, v)
  \/ \E t \in Tasks, v \in 1..MaxVisits : SaveNotes(t, v)
  \/ \E t \in Tasks : GetStatistics(t)
  \/ \E t \in Tasks : RefreshRead(t)
  \/ \E t \in Tasks : RefreshWrite(t)
  \/ \E t \in Tasks : Finish(t)
  \/ \E t \in Tasks : Return(t)
  \/ Tick

Spec == Init /\ [][Next]_vars

\* What happens without a new request or an answer from outside: the event
\* loop runs a handler that can run, and the HTTP client's total timeout
\* ends a remote call that got no answer.
Progress ==
  \E t \in Tasks :
    \/ RefreshRead(t) \/ RefreshWrite(t) \/ Finish(t) \/ Return(t)
    \/ ScorerTimeout(t)

\* Intake requests alone: what a request for an assessment goes through.
IntakeNext ==
  \/ \E t \in Tasks, inp \in IntakeInputs : AssessRequest(t, inp)
  \/ \E t \in Tasks, r \in RemoteResponses : ScorerResponds(t, r)
  \/ \E t \in Tasks : ScorerFails(t)
  \/ \E t \in Tasks : ScorerTimeout(t)
  \/ \E t \in Tasks : RefreshRead(t)
  \/ \E t \in Tasks : RefreshWrite(t)
  \/ \E t \in Tasks : Finish(t)
  \/ \E t \in Tasks : Return(t)

LiveSpec == Init /\ [][IntakeNext]_vars /\ WF_vars(Progress)

-----------------------------------------------------------------------------
(* main.py: check_long_wait_task, the periodic sweep, and                  *)
(* QueueManager.check_long_wait_patients.                                  *)

MaxClock == 3960    \* no sweep of SweepSpec starts later (66 minutes)
MaxBroadcastClock == 600  \* no sweep of the broadcast model starts later
MaxArrival == 600   \* requests arrive up to this time

\* Minutes an entry of a level may wait.
long_wait_threshold == [critical |-> 5, moderate |-> 30, normal |-> 60]

\* long_wait_threshold.get(entry['severity_level'], 60)
ThresholdOf(level) ==
  IF level \in DOMAIN long_wait_threshold THEN long_wait_threshold[level]
  ELSE 60

\* wait_time is (current_time - checked_in).total_seconds() / 60, a float:
\* it exceeds the threshold when the seconds exceed 60 * threshold, and int()
\* of a positive float is the floor.  `entry` is the cache's dict itself.
check_long_wait_patients(cache, current_time) ==
  LET Seconds(e) == current_time - e.checked_in_at
      long == SelectSeq(cache, LAMBDA e :
                Seconds(e) > 60 * ThresholdOf(e.severity_level))
  IN  [k \in DOMAIN long |->
         [entry |-> long[k],
          wait_time_minutes |-> Seconds(long[k]) \div 60,
          threshold_exceeded |->
            (Seconds(long[k]) - 60 * ThresholdOf(long[k].severity_level)) \div 60]]

\* asyncio.sleep(300)
SleepTimes == {300}

\* The websockets that may connect, to /ws/alerts or to /ws/queue.
Listeners == {"ws1", "ws2"}

\* The sleep of d seconds is over and the sweep asks the queue manager who
\* waits too long, at the time it is then.  The list it gets holds the dicts of the
\* cache as it is now (shares).
SweepWakes(d) ==
  /\ tasks[Sweeper].pc = "sleeping"
  /\ running = NoTask
  /\ now' = now + d
  /\ tasks' = [tasks EXCEPT ![Sweeper].pc = "notify",
                            ![Sweeper].snap =
                               check_long_wait_patients(queue_cache, now + d),
                            ![Sweeper].shares = TRUE,
                            ![Sweeper].i = 1]
  /\ running' = Sweeper
  /\ UNCHANGED <<useFallback, active_connections, storeVars, queue_cache, cacheOwner, scorerVars,
                 follow_ups, served>>

\* notify_long_wait formats its message with severity_level.upper() before
\* it creates the alert: that raises AttributeError for a level that is not
\* a string (a JSON null of the remote scorer, stored as it came).
NotifyRaises(entry) == entry.severity_level = None

\* One turn of `for patient_info in long_wait_patients`, up to the
\* broadcast: notify_long_wait with the fields of patient_info['entry'] as
\* the dict holds them now.  It creates the alert and pushes, and drops what
\* the push returned (sent keeps it).  What it raises leaves the for loop;
\* the task's `except Exception` prints it and the while loop goes back to
\* its sleep.  (start and wrote keep, for the broadcast that follows, the
\* listeners connected when it began and the writes made.)
SweepNotifies ==
  /\ tasks[Sweeper].pc = "notify"
  /\ tasks[Sweeper].i <= Len(tasks[Sweeper].snap)
  /\ CanRun(Sweeper)
  /\ LET entry == tasks[Sweeper].snap[tasks[Sweeper].i].entry IN
     IF NotifyRaises(entry)
       THEN /\ alerts' = alerts
            /\ tasks' = [tasks EXCEPT ![Sweeper] = SleepingSweep]
            /\ running' = NoTask
       ELSE \E d \in PossibleDeliveries :
              LET result == send_notification_to_doctors(d) IN
              /\ alerts' = create_alert(alerts, "long_wait", entry.visit_id,
                                        entry.patient_name)
              /\ IF Raises(result)
                   THEN /\ tasks' = [tasks EXCEPT ![Sweeper] = SleepingSweep]
                        /\ running' = NoTask
                   ELSE /\ tasks' = [tasks EXCEPT
                                       ![Sweeper].pc = "broadcast",
                                       ![Sweeper].sent = Append(@, result),
                                       ![Sweeper].j = 1,
                                       ![Sweeper].start = active_connections,
                                       ![Sweeper].wrote = <<>>]
                        /\ running' = Sweeper
  /\ UNCHANGED <<useFallback, active_connections, visits, triage_results,
                 queue, doc_order, doctor_notes, queue_cache, cacheOwner, now,
                 scorerVars, follow_ups, served>>

\* The message the sweep broadcasts for an item of its list.
long_wait_alert(patient_info) ==
  [type |-> "long_wait_alert", data |-> patient_info]

\* The snapshot a listener of /ws/alerts is sent when it connects.
initial_alerts(as) == [type |-> "initial_alerts", data |-> get_active_alerts(as)]

\* The first message a listener of /ws/queue is sent: the statistics, which
\* hold the cache itself under 'queue'.
initial_queue(cache) ==
  [type |-> "initial_queue",
   data |-> Merge([k \in DOMAIN Statistics(cache) \ {"status"} |->
                     Statistics(cache)[k]],
                  [queue |-> cache])]

\* json.dumps(message) raises TypeError for a value that is no JSON value.
\* A datetime is none, and every queue entry holds one (checked_in_at, set
\* by add_to_queue and read back from the store), as does every alert
\* (created_at, set by create_alert; the model's alerts leave it out).
json_dumps_raises(message) ==
  IF message.type = "long_wait_alert"
    THEN "checked_in_at" \in DOMAIN message.data.entry
  ELSE IF message.type = "initial_queue"
    THEN \E k \in DOMAIN message.data.queue :
           "checked_in_at" \in DOMAIN message.data.queue[k]
  ELSE message.data # <<>>

\* WebSocket.send_json(message): json.dumps comes first, before anything is
\* awaited, and the text is then sent.
send_json(message) ==
  IF json_dumps_raises(message) THEN Raised("TypeError")
  ELSE [sent |-> message.type]

\* broadcast without its try/except: what send_json raises leaves
\* broadcast and the sweep's for loop.
BroadcastWriteUncaught ==
  /\ tasks[Sweeper].pc = "broadcast"
  /\ tasks[Sweeper].j <= Len(active_connections)
  /\ CanRun(Sweeper)
  /\ LET result == send_json(long_wait_alert(tasks[Sweeper].snap[tasks[Sweeper].i])) IN
     IF Raises(result)
       THEN /\ tasks' = [tasks EXCEPT ![Sweeper] = SleepingSweep]
            /\ running' = NoTask
       ELSE /\ tasks' = [tasks EXCEPT
                           ![Sweeper].wrote =
                              Append(@, [to |-> active_connections[tasks[Sweeper].j],
                                         ok |-> TRUE]),
                           ![Sweeper].j = @ + 1]
            /\ running' = NoTask
  /\ UNCHANGED <<useFallback, active_connections, storeVars, queue_cache,
                 cacheOwner, now, scorerVars, follow_ups, served>>

\* ConnectionManager.broadcast, one turn of `for connection in
\* self.active_connections`: the list iterator takes the element at its
\* index in the list as it is now, and the bare except drops what send_json
\* raises.  A write that raised in json.dumps has awaited nothing, so the
\* sweep keeps the event loop; one that sent its text has given it away.
BroadcastWrite ==
  /\ tasks[Sweeper].pc = "broadcast"
  /\ tasks[Sweeper].j <= Len(active_connections)
  /\ CanRun(Sweeper)
  /\ LET result == send_json(long_wait_alert(tasks[Sweeper].snap[tasks[Sweeper].i])) IN
     /\ tasks' = [tasks EXCEPT
                    ![Sweeper].wrote =
                       Append(@, [to |-> active_connections[tasks[Sweeper].j],
                                  ok |-> ~Raises(result)]),
                    ![Sweeper].j = @ + 1]
     /\ running' = IF Raises(result) THEN Sweeper ELSE NoTask
  /\ UNCHANGED <<useFallback, active_connections, storeVars, queue_cache,
                 cacheOwner, now, scorerVars, follow_ups, served>>

\* The iterator is past the end of the list: broadcast returns, and the
\* sweep goes on to its next item.
BroadcastEnds ==
  /\ tasks[Sweeper].pc = "broadcast"
  /\ tasks[Sweeper].j > Len(active_connections)
  /\ CanRun(Sweeper)
  /\ tasks' = [tasks EXCEPT ![Sweeper].pc = "notify", ![Sweeper].i = @ + 1,
                            ![Sweeper].j = 0, ![Sweeper].start = <<>>,
                            ![Sweeper].wrote = <<>>]
  /\ running' = Sweeper
  /\ UNCHANGED <<useFallback, active_connections, storeVars, queue_cache,
                 cacheOwner, now, scorerVars, follow_ups, served>>

\* websocket_alerts: a listener connects (ConnectionManager.connect) and is
\* sent the initial snapshot.  When send_json raises on it, the exception
\* is outside the endpoint's inner try: its `finally` runs
\* ConnectionManager.disconnect at once, and the listener is off the list
\* again before any other task runs.
Connect(c) ==
  /\ running = NoTask
  /\ \A k \in DOMAIN active_connections : active_connections[k] # c
  /\ active_connections' =
       IF Raises(send_json(initial_alerts(alerts))) THEN active_connections
       ELSE Append(active_connections, c)
  /\ UNCHANGED <<useFallback, storeVars, queue_cache, cacheOwner, tasks,
                 running, now, scorerVars, follow_ups, served>>

\* list.remove(websocket)
Remove(list, c) == SelectSeq(list, LAMBDA x : x # c)

\* websocket_queue_updates: a listener connects on /ws/queue
\* (ConnectionManager.connect) and its endpoint calls get_queue_statistics,
\* which starts with refresh_queue.
ConnectQueue(t, c) ==
  /\ tasks[t].op = "idle"
  /\ running = NoTask
  /\ t = "t1" \/ tasks["t1"].op # "idle"
  /\ \A k \in DOMAIN active_connections : active_connections[k] # c
  /\ active_connections' = Append(active_connections, c)
  /\ tasks' = [tasks EXCEPT ![t] =
                 [IdleTask EXCEPT !.op = "ws_queue", !.pc = "refresh_read",
                                  !.inp = c]]
  /\ running' = t
  /\ UNCHANGED <<useFallback, storeVars, queue_cache, cacheOwner, now,
                 scorerVars, follow_ups, served>>

\* websocket_queue_updates after the refresh: the statistics are sent as
\* the initial message, and the endpoint goes on to wait for what the
\* client sends.  What the refresh or send_json raised is outside the inner
\* try: the endpoint's `finally` runs ConnectionManager.disconnect.
ConnectQueueEnds(t) ==
  /\ tasks[t].op = "ws_queue"
  /\ \/ tasks[t].pc = "done"
     \/ tasks[t].pc = "refresh_write" /\ tasks[t].i > Len(tasks[t].snap)
  /\ CanRun(t)
  /\ active_connections' =
       IF \/ tasks[t].pc = "done"
          \/ Raises(send_json(initial_queue(queue_cache)))
         THEN Remove(active_connections, tasks[t].inp)
         ELSE active_connections
  /\ tasks' = [tasks EXCEPT ![t] = IdleTask]
  /\ running' = NoTask
  /\ UNCHANGED <<useFallback, storeVars, queue_cache, cacheOwner, now,
                 scorerVars, follow_ups, served>>

\* The listener's endpoint has seen the connection end, and its `finally`
\* runs ConnectionManager.disconnect.
Disconnect(c) ==
  /\ running = NoTask
  /\ \E k \in DOMAIN active_connections : active_connections[k] = c
  /\ active_connections' = Remove(active_connections, c)
  /\ UNCHANGED <<useFallback, storeVars, queue_cache, cacheOwner, tasks,
                 running, now, scorerVars, follow_ups, served>>

\* The loop is over: back to asyncio.sleep(300).
SweepSleeps ==
  /\ tasks[Sweeper].pc = "notify"
  /\ tasks[Sweeper].i > Len(tasks[Sweeper].snap)
  /\ CanRun(Sweeper)
  /\ tasks' = [tasks EXCEPT ![Sweeper] = SleepingSweep]
  /\ running' = NoTask
  /\ UNCHANGED <<useFallback, active_connections, storeVars, queue_cache, cacheOwner, now,
                 scorerVars, follow_ups, served>>

-----------------------------------------------------------------------------
(* The process restarts: the document store keeps what it holds, and the   *)
(* new process starts with QueueManager() and ConnectionManager() as       *)
(* constructed, with no handler in flight and its sweep in its first       *)
(* sleep.                                                                  *)

Restart ==
  /\ running = NoTask
  /\ queue_cache' = <<>>
  /\ cacheOwner' = NoTask
  /\ active_connections' = <<>>
  /\ tasks' = [t \in Tasks \cup {Sweeper} |->
                 IF t = Sweeper THEN SleepingSweep ELSE IdleTask]
  /\ UNCHANGED <<useFallback, storeVars, running, now, scorerVars, follow_ups,
                 served>>

\* Remote answers of the sweep's model: the three kinds of level an entry
\* is held to a threshold by, one of them the JSON null.
SweepResponses ==
  { [severity_score |-> 20, severity_level |-> "normal", priority |-> 3],
    [severity_score |-> 90, severity_level |-> "critical", priority |-> 1],
    [severity_score |-> 90, severity_level |-> None, priority |-> 1] }

\* The service with its sweep: patients are taken in and scored by the remote
\* scorer, called and completed, and the process may restart, while the
\* clock runs from one sweep to the next.
SweepNext ==
  \/ /\ now <= MaxArrival
     /\ \E t \in Tasks : AssessRequest(t, HeadacheIntake)
  \/ \E t \in Tasks, r \in SweepResponses : ScorerResponds(t, r)
  \/ /\ now <= MaxArrival
     /\ \E t \in Tasks, v \in 1..MaxVisits, d \in Doctors : CallPatient(t, v, d)
  \/ /\ now <= MaxArrival
     /\ \E t \in Tasks, v \in 1..MaxVisits : CompleteVisit(t, v)
  \/ \E t \in Tasks : RefreshRead(t)
  \/ \E t \in Tasks : RefreshWrite(t)
  \/ \E t \in Tasks : Finish(t)
  \/ \E t \in Tasks : Return(t)
  \/ /\ now <= MaxArrival
     /\ Restart
  \/ \E d \in SleepTimes : now + d <= MaxClock /\ SweepWakes(d)
  \/ SweepNotifies
  \/ BroadcastEnds
  \/ SweepSleeps
  \/ Tick

SweepSpec == Init /\ [][SweepNext]_vars

-----------------------------------------------------------------------------
(* Alerts: GET /doctor/alerts and POST /doctor/alerts/{id}/acknowledge.    *)
(* An alert's document id is its index in the collection.                  *)

MaxAlertIds == 4     \* alert ids a doctor may name

Acknowledgers == {"doctor_001", "doctor_002"}

acknowledge_alert_toggle(as, alert_id, doctor_id, at) ==
  [as EXCEPT ![alert_id] = Merge(@, [acknowledged |-> ~@.acknowledged,
                    acknowledged_by |-> doctor_id, acknowledged_at |-> at])]

\* FirebaseService.acknowledge_alert: update() of the three fields, whatever
\* the document holds.
acknowledge_alert(as, alert_id, doctor_id, at) ==
  [as EXCEPT ![alert_id] = Merge(@, [acknowledged |-> TRUE,
                    acknowledged_by |-> doctor_id, acknowledged_at |-> at])]

\* POST /doctor/alerts/{alert_id}/acknowledge by the doctor doctor_id.  The
\* handler awaits nothing that suspends: it runs from start to response
\* while the loop is free, and answers "Alert acknowledged".  (For an id
\* with no document update() raises and nothing is changed.)
AcknowledgeAlert(alert_id, doctor_id) ==
  /\ running = NoTask
  /\ alert_id \in DOMAIN alerts
  /\ alerts' = acknowledge_alert(alerts, alert_id, doctor_id, now)
  /\ UNCHANGED <<useFallback, active_connections, visits, triage_results, queue, doc_order, doctor_notes,
                 queue_cache, cacheOwner, tasks, running, now, scorerVars,
                 follow_ups, served>>

AlertIntakes == { HeadacheIntake }

\* The remote answers that carry a score and a level of the schema.
AlertResponses ==
  { r \in RemoteResponses : Get(r, "severity_level", None) \in
                              {"normal", "moderate", "critical"} }

\* Intakes and follow-ups, which create alerts, and acknowledgements.
AlertNext ==
  \/ \E t \in Tasks, inp \in AlertIntakes : AssessRequest(t, inp)
  \/ \E t \in Tasks, v \in 1..MaxVisits, f \in FollowUpInputs :
        FollowUpRequest(t, v, f[1], f[2])
  \/ \E t \in Tasks, r \in AlertResponses : ScorerResponds(t, r)
  \/ \E t \in Tasks : ScorerFails(t)
  \/ \E t \in Tasks : RefreshRead(t)
  \/ \E t \in Tasks : RefreshWrite(t)
  \/ \E t \in Tasks : Finish(t)
  \/ \E t \in Tasks : Return(t)
  \/ \E k \in 1..MaxAlertIds, d \in Acknowledgers : AcknowledgeAlert(k, d)
  \/ Tick

AlertSpec == Init /\ [][AlertNext]_vars

\* The sweep with listeners on the two websockets, which connect and
\* disconnect whenever the event loop is free: patients taken in during the
\* first minutes, and the first sweeps.
BroadcastNext ==
  \/ /\ now <= MaxTime
     /\ \E t \in Tasks : AssessRequest(t, NamesakeIntake)
  \/ \E t \in Tasks, r \in SweepResponses : ScorerResponds(t, r)
  \/ \E t \in Tasks : RefreshRead(t)
  \/ \E t \in Tasks : RefreshWrite(t)
  \/ \E t \in Tasks : Finish(t)
  \/ \E t \in Tasks : Return(t)
  \/ /\ now < MaxBroadcastClock
     /\ \E d \in SleepTimes : SweepWakes(d)
  \/ SweepNotifies
  \/ BroadcastWrite
  \/ BroadcastEnds
  \/ SweepSleeps
  \/ \E c \in Listeners : Connect(c)
  \/ \E t \in Tasks, c \in Listeners : ConnectQueue(t, c)
  \/ \E t \in Tasks : ConnectQueueEnds(t)
  \/ \E c \in Listeners : Disconnect(c)
  \/ Restart
  \/ Tick

BroadcastSpec == Init /\ [][BroadcastNext]_vars

-----------------------------------------------------------------------------
(* The service across restarts.                                            *)

\* The service over a store that outlives the process.
RestartNext ==
  \/ \E t \in Tasks : AssessRequest(t, HeadacheIntake)
  \/ \E t \in Tasks, v \in 1..MaxVisits, f \in FollowUpInputs :
        FollowUpRequest(t, v, f[1], f[2])
  \/ \E t \in Tasks, r \in AlertResponses : ScorerResponds(t, r)
  \/ \E t \in Tasks, v \in 1..MaxVisits, d \in Doctors : CallPatient(t, v, d)
  \/ \E t \in Tasks, v \in 1..MaxVisits : CompleteVisit(t, v)
  \/ \E t \in Tasks : GetStatistics(t)
  \/ \E t \in Tasks : RefreshRead(t)
  \/ \E t \in Tasks : RefreshWrite(t)
  \/ \E t \in Tasks : Finish(t)
  \/ \E t \in Tasks : Return(t)
  \/ Restart

RestartSpec == Init /\ [][RestartNext]_vars


-----------------------------------------------------------------------------
(* Intakes and follow-ups whose remote answers disagree on priority.       *)

\* Remote answers for the three levels, among them a critical one that
\* carries priority 3 and answers that differ in score within one level, by
\* more than ten points (90, 60) and by less (90, 95).
SeverityResponses ==
  AlertResponses \cup
    { [severity_score |-> 60, severity_level |-> "critical", priority |-> 1],
      [severity_score |-> 95, severity_level |-> "critical", priority |-> 1],
      [severity_score |-> 50, severity_level |-> "moderate", priority |-> 1] }

\* Patients as most are named, and one whose name makes every alert about
\* them critical.
SeverityIntakes == { HeadacheIntake, NamesakeIntake }
SeverityFollowUps == FollowUpInputs \cup { <<"worsened", "namesake">> }

SeverityNext ==
  \/ \E t \in Tasks, inp \in SeverityIntakes : AssessRequest(t, inp)
  \/ \E t \in Tasks, v \in 1..MaxVisits, f \in SeverityFollowUps :
        FollowUpRequest(t, v, f[1], f[2])
  \/ \E t \in Tasks, r \in SeverityResponses : ScorerResponds(t, r)
  \/ \E t \in Tasks : RefreshRead(t)
  \/ \E t \in Tasks : RefreshWrite(t)
  \/ \E t \in Tasks : Finish(t)
  \/ \E t \in Tasks : Return(t)

SeveritySpec == Init /\ [][SeverityNext]_vars


-----------------------------------------------------------------------------
(* analyze_vitals by itself, over dicts that lack keys, hold None, hold    *)
(* values on and beside the thresholds, and hold a vital with no           *)
(* thresholds (weight).                                                    *)

AbsentReading == -2     \* the key is not in the dict

Temperatures == {AbsentReading, NoneValue, 355, 356, 370, 380, 395}
HeartRates   == {AbsentReading, NoneValue, 50, 80, 100, 130}
Systolics    == {AbsentReading, 85, 120}
Saturations  == {AbsentReading, 88, 95, 98, 100}
Weights      == {AbsentReading, 70}

\* The key orders of the dicts: the order of VitalsBase, and another one.
KeyOrders ==
  { <<"temperature", "heart_rate", "blood_pressure_systolic", "oxygen_saturation", "weight">>,
    <<"weight", "oxygen_saturation", "heart_rate", "temperature", "blood_pressure_systolic">> }

VitalsDict(order, t, h, s, o, w) ==
  LET all == [temperature |-> t, heart_rate |-> h, blood_pressure_systolic |-> s,
              oxygen_saturation |-> o, weight |-> w]
      keys == SelectSeq(order, LAMBDA n : all[n] # AbsentReading)
  IN  [k \in 1..Len(keys) |-> <<keys[k], all[keys[k]]>>]

VitalsInputs ==
  { [fn |-> "vitals", vitals |-> VitalsDict(order, t, h, s, o, w)] :
      order \in KeyOrders, t \in Temperatures, h \in HeartRates, s \in Systolics,
      o \in Saturations, w \in Weights }

VitalsInit ==
  /\ ServiceInit
  /\ sc_in \in VitalsInputs
  /\ sc_out = <<>>

AnalyzeVitals ==
  /\ sc_out = <<>>
  /\ sc_in.fn = "vitals"
  /\ sc_out' = << analyze_vitals(sc_in.vitals) >>
  /\ UNCHANGED <<useFallback, active_connections, storeVars, queue_cache, cacheOwner, tasks,
                 running, now, follow_ups, served, sc_in>>

VitalsNext == AnalyzeVitals

VitalsSpec == VitalsInit /\ [][VitalsNext]_vars


-----------------------------------------------------------------------------
(* Follow-ups that overlap: a second follow-up request is taken while the  *)
(* first waits for the remote scorer.                                      *)

MaxRaceFollowUps == 2   \* follow-up requests served where they may overlap

\* Remote answers that agree with the level's priority and that are either
\* equal or apart in level and by more than ten points.
RaceResponses ==
  { [severity_score |-> 20, severity_level |-> "normal", priority |-> 3],
    [severity_score |-> 90, severity_level |-> "critical", priority |-> 1] }

RaceFollowUps == { <<"same", "ok">>, <<"improved", "ok">> }

RaceNext ==
  \/ \E t \in Tasks : AssessRequest(t, HeadacheIntake)
  \/ \E t \in Tasks, v \in 1..MaxVisits, f \in RaceFollowUps :
        FollowUpRequestWithin(MaxRaceFollowUps, t, v, f[1], f[2])
  \/ \E t \in Tasks, r \in RaceResponses : ScorerResponds(t, r)
  \/ \E t \in Tasks : RefreshRead(t)
  \/ \E t \in Tasks : RefreshWrite(t)
  \/ \E t \in Tasks : Finish(t)
  \/ \E t \in Tasks : Return(t)

RaceSpec == Init /\ [][RaceNext]_vars


-----------------------------------------------------------------------------------------------------------------------------------------------------------------------------------------------------------------------------
(* The sweep over a long wait: the clock runs past every threshold and on  *)
(* through several more sweeps, and the remote scorer may answer a null    *)
(* level.                                                                  *)

MaxLongWait == 5400      \* no sweep of this model starts later (90 minutes)

\* Remote answers: a well-formed one, and one whose severity_level is the
\* JSON null.
LongWaitResponses ==
  { [severity_score |-> 20, severity_level |-> "normal", priority |-> 3],
    [severity_score |-> 90, severity_level |-> None, priority |-> 1] }

LongWaitNext ==
  \/ \E t \in Tasks : AssessRequest(t, HeadacheIntake)
  \/ \E t \in Tasks, r \in LongWaitResponses : ScorerResponds(t, r)
  \/ \E t \in Tasks : RefreshRead(t)
  \/ \E t \in Tasks : RefreshWrite(t)
  \/ \E t \in Tasks : Finish(t)
  \/ \E t \in Tasks : Return(t)
  \/ \E d \in SleepTimes : now + d <= MaxLongWait /\ SweepWakes(d)
  \/ SweepNotifies
  \/ BroadcastEnds
  \/ SweepSleeps

LongWaitSpec == Init /\ [][LongWaitNext]_vars

-----------------------------------------------------------------------------
(* The rule-based scorer by itself: one call of predict_severity or of     *)
(* reassess_severity on arguments drawn from the sets below.               *)

MaxScore == 100     \* symptom scores and original scores are 0..MaxScore

Dur2Weeks == <<"2"," ","W","e","e","k","s">>
DurSudden == <<"S","u","d","d","e","n"," ","o","n","s","e","t">>
Dur3Days  == <<"3"," ","d","a","y","s">>

CriticalVitals  == << <<"heart_rate", 130>>, <<"oxygen_saturation", 88>> >>
FullOxygen      == << <<"oxygen_saturation", 100>> >>
UnmeasuredPulse == << <<"temperature", 370>>, <<"heart_rate", NoneValue>> >>

ScorerTexts ==
  { TxtHeadache, TxtIHave \o TxtChestPain, TxtIHave \o TxtChestPainCaps,
    TxtSeizure, TxtChoking, TxtChoKelvin, TxtDottedI }
ScorerVitals ==
  { AllNormalVitals, FeverVitals, CriticalVitals, FullOxygen, UnmeasuredPulse }
Durations == { <<>>, Dur2Weeks, DurSudden, Dur3Days }
ConditionChanges == { "improved", "same", "worsened" }

PredictInputs ==
  [fn : {"predict"}, symptom_text : ScorerTexts, symptom_score : 0..MaxScore,
   vitals : ScorerVitals, duration : Durations]
ReassessInputs ==
  [fn : {"reassess"}, original_score : 0..MaxScore,
   follow_up_text : {TxtHeadache, TxtSeizure},
   condition_change : ConditionChanges]

ScorerInit ==
  /\ ServiceInit
  /\ sc_in \in PredictInputs \cup ReassessInputs
  /\ sc_out = <<>>

PredictSeverity ==
  /\ sc_out = <<>>
  /\ sc_in.fn = "predict"
  /\ sc_out' = << predict_severity(sc_in.symptom_text, sc_in.symptom_score,
                                   sc_in.vitals, sc_in.duration) >>
  /\ UNCHANGED <<useFallback, active_connections, storeVars, queue_cache, cacheOwner, tasks,
                 running, now, follow_ups, served, sc_in>>

ReassessSeverity ==
  /\ sc_out = <<>>
  /\ sc_in.fn = "reassess"
  /\ sc_out' = << reassess_severity(sc_in.original_score, sc_in.follow_up_text,
                                    sc_in.condition_change) >>
  /\ UNCHANGED <<useFallback, active_connections, storeVars, queue_cache, cacheOwner, tasks,
                 running, now, follow_ups, served, sc_in>>

ScorerNext == PredictSeverity \/ ReassessSeverity

ScorerSpec == ScorerInit /\ [][ScorerNext]_vars

-----------------------------------------------------------------------------
(* Properties.                                                             *)

Waiting == {e \in queue : e.status = "waiting"}

\* The task is inside a 'read the waiting entries, order them, persist the
\* positions' section.
InRefresh(t) == tasks[t].pc \in {"refresh_read", "refresh_write"}

\* a is not after b by (priority ascending, check-in ascending)
InKeyOrder(a, b) ==
  \/ a.priority < b.priority
  \/ a.priority = b.priority /\ a.checked_in_at <= b.checked_in_at

OccursIgnoringCase(keyword, text) ==
  \E k \in 1..(Len(text) - Len(keyword) + 1) :
     \A j \in 1..Len(keyword) : LowerChar(text[k + j - 1]) = <<keyword[j]>>

\* C3: a symptom text holding a configured emergency keyword, in any letter
\* case, makes predict_severity return score 100, level critical, priority 1
\* and the override mark, with exactly the occurring keywords as flags,
\* whatever the vitals and the duration.
C3_EmergencyOverride ==
  ( /\ sc_out # <<>>
    /\ sc_in.fn = "predict"
    /\ \E n \in DOMAIN EMERGENCY_KEYWORDS :
         OccursIgnoringCase(EMERGENCY_KEYWORDS[n], sc_in.symptom_text) )
  => LET r == sc_out[1] IN
     /\ r.severity_score = 100
     /\ r.severity_level = "critical"
     /\ r.priority = 1
     /\ r.rule_based_override = TRUE
     /\ r.emergency_flags # <<>>
     /\ \A n \in DOMAIN EMERGENCY_KEYWORDS :
          OccursIgnoringCase(EMERGENCY_KEYWORDS[n], sc_in.symptom_text)
          <=> \E m \in DOMAIN r.emergency_flags :
                r.emergency_flags[m] = EMERGENCY_KEYWORDS[n]

\* C3 witness: "I have CHEST Pains" with all-normal vitals and a duration
\* of weeks was scored, and the result is the override.
C3_Witness ==
  /\ sc_out # <<>>
  /\ sc_in.fn = "predict"
  /\ sc_in.symptom_text = TxtIHave \o TxtChestPainCaps
  /\ sc_in.vitals = AllNormalVitals
  /\ sc_in.duration = Dur2Weeks
  /\ sc_in.symptom_score = 0
  /\ sc_out[1].severity_score = 100
  /\ sc_out[1].rule_based_override

\* C4: in every result of predict_severity and of reassess_severity the
\* level is critical iff score >= 70, moderate iff 40 <= score < 70, normal
\* iff score < 40, and the priority is 1, 2, 3 respectively.
C4_ClassificationBoundaries ==
  sc_out # <<>> =>
    LET r == sc_out[1]
        s == r.severity_score
    IN  /\ r.severity_level \in {"critical", "moderate", "normal"}
        /\ r.severity_level = "critical" <=> s >= 70
        /\ r.severity_level = "moderate" <=> (40 <= s /\ s < 70)
        /\ r.severity_level = "normal" <=> s < 40
        /\ r.severity_level = "critical" => r.priority = 1
        /\ r.severity_level = "moderate" => r.priority = 2
        /\ r.severity_level = "normal" => r.priority = 3

\* C4 witness: predict_severity produced the score 70, and it is critical.
C4_Witness ==
  /\ sc_out # <<>>
  /\ sc_in.fn = "predict"
  /\ sc_out[1].severity_score = 70
  /\ sc_out[1].severity_level = "critical"
  /\ sc_out[1].priority = 1

LevelPriority(level) ==
  IF level = "critical" THEN 1 ELSE IF level = "moderate" THEN 2 ELSE 3

\* C5: whenever no queue operation is under way, every waiting entry's
\* priority is the one its level maps to (critical 1, moderate 2, normal 3),
\* and an entry of a more severe level is ahead of every entry of a less
\* severe one.
C5_LevelDecidesOrder ==
  running = NoTask =>
    /\ \A e \in Waiting : e.priority = LevelPriority(e.severity_level)
    /\ \A a, b \in Waiting :
         LevelPriority(a.severity_level) < LevelPriority(b.severity_level)
           => a.queue_position < b.queue_position

\* C6: a complete-visit request for a visit with an entry in the queue
\* store, waiting or in_progress, deletes the entry, marks the visit
\* completed with its completion time, and goes on to requeue.
C6_CompleteDeletesEntry ==
  [][ \A t \in Tasks :
        ( /\ tasks[t].op = "idle"
          /\ tasks'[t].op = "complete"
          /\ \E e \in queue : e.visit_id = tasks'[t].visit )
        => LET v == tasks'[t].visit IN
           /\ ~ \E e \in queue' : e.visit_id = v
           /\ visits'[v].status = "completed"
           /\ "completed_at" \in DOMAIN visits'[v]
           /\ tasks'[t].pc = "refresh_read" ]_vars

\* C7: a visit that is completed stays completed at every step, and a
\* completed visit has no waiting queue entry.
C7_CompletedIsFinal ==
  [][ \A v \in DOMAIN visits' :
        /\ (v \in DOMAIN visits /\ visits[v].status = "completed")
             => visits'[v].status = "completed"
        /\ visits'[v].status = "completed"
             => ~ \E e \in queue' : e.visit_id = v /\ e.status = "waiting" ]_vars

\* The intake request of task t has ended after its scorer call failed.
ScoringFailed(t) ==
  /\ tasks[t].op = "assess"
  /\ tasks[t].pc = "done"
  /\ tasks[t].ai \in {"failed", "timeout"}

\* C8: an intake whose remote scorer call failed, with the fallback
\* enabled, ends with the rule-based result saved, the visit carrying its
\* score and level, a waiting queue entry with its score, level and
\* priority, and the assessment as the response.
C8_FallbackRecovers ==
  \A t \in Tasks :
    (ScoringFailed(t) /\ useFallback) =>
      LET v  == tasks[t].visit
          rb == RuleBased(tasks[t].inp)
      IN  /\ tasks[t].ret.status = 200
          /\ \E k \in DOMAIN triage_results : triage_results[k].visit_id = v
          /\ "triage_score" \in DOMAIN visits[v]
          /\ visits[v].triage_score = rb.severity_score
          /\ visits[v].severity_level = rb.severity_level
          /\ \E e \in Waiting :
               /\ e.visit_id = v
               /\ e.severity_score = rb.severity_score
               /\ e.severity_level = rb.severity_level
               /\ e.priority = rb.priority

\* An intake request that waits for the remote scorer is answered in the
\* end.
ScoringEnds ==
  \A t \in Tasks :
    (tasks[t].op = "assess" /\ tasks[t].pc = "scoring")
      ~> (tasks[t].op = "assess" /\ tasks[t].pc = "done")

\* An intake whose remote call was ended by the timeout is answered as the
\* fallback policy has it: with the rule-based result when the fallback is
\* enabled, with the scoring failure otherwise.
TimeoutFallsBack ==
  \A t \in Tasks :
    (tasks[t].op = "assess" /\ tasks[t].pc = "done" /\ tasks[t].ai = "timeout")
      => IF useFallback
           THEN /\ tasks[t].ret.status = 200
                /\ tasks[t].res = RuleBased(tasks[t].inp)
           ELSE tasks[t].ret = Response(500, "AI Analysis Failed")

\* C9: the scoring step of an intake always finishes: a remote call that
\* gets no answer is ended by the timeout, the timeout is a scorer failure
\* to which the fallback policy applies (the rule-based result if the
\* fallback is enabled, the scoring failure otherwise), and every intake
\* request that waits for the scorer is answered in the end.
C9_ScoringFinishes == ScoringEnds /\ []TimeoutFallsBack

\* C10 as stated: with the fallback disabled, at the step at which an
\* intake's scoring fails triage_results and queue are unchanged, the visit
\* carries no triage score and no level, and the response is the scoring
\* failure.
C10_FailureStopsPipelineAsStated ==
  [][ \A t \in Tasks :
        ( /\ ~useFallback
          /\ tasks[t].pc # "done"
          /\ tasks'[t].op = "assess"
          /\ tasks'[t].pc = "done"
          /\ tasks'[t].ai \in {"failed", "timeout", "raised"} )
        => LET v == tasks'[t].visit IN
           /\ triage_results' = triage_results
           /\ queue' = queue
           /\ "triage_score" \notin DOMAIN visits'[v]
           /\ "severity_level" \notin DOMAIN visits'[v]
           /\ tasks'[t].ret = Response(500, "AI Analysis Failed") ]_vars

\* C10: with the fallback disabled, the step at which an intake's scoring
\* fails leaves triage_results and queue as they were and writes nothing to
\* the visit, which carries no triage result and no triage score or level
\* (but one that a follow-up request on the same visit wrote, with its
\* condition_change), and the response is the scoring failure.
C10_FailureStopsPipeline ==
  [][ \A t \in Tasks :
        ( /\ ~useFallback
          /\ tasks[t].pc # "done"
          /\ tasks'[t].op = "assess"
          /\ tasks'[t].pc = "done"
          /\ tasks'[t].ai \in {"failed", "timeout", "raised"} )
        => LET v == tasks'[t].visit IN
           /\ triage_results' = triage_results
           /\ queue' = queue
           /\ v \in DOMAIN visits => visits'[v] = visits[v]
           /\ "triage_result_id" \notin DOMAIN visits'[v]
           /\ "condition_change" \notin DOMAIN visits'[v]
                => /\ "triage_score" \notin DOMAIN visits'[v]
                   /\ "severity_level" \notin DOMAIN visits'[v]
           /\ tasks'[t].ret = Response(500, "AI Analysis Failed") ]_vars

\* C10 witness: the fallback is disabled and an intake has just been
\* answered with the scoring failure after its remote call failed.
C10_Witness ==
  /\ ~useFallback
  /\ \E t \in Tasks :
       /\ ScoringFailed(t)
       /\ tasks[t].ai = "failed"
       /\ tasks[t].ret = Response(500, "AI Analysis Failed")
       /\ triage_results = <<>>
       /\ queue = {}
       /\ DOMAIN visits[tasks[t].visit] = {"status", "symptoms", "vitals"}

\* The fields of the result schema the remote scorer is asked for that the
\* route goes on to use.
SchemaFields == {"severity_score", "severity_level", "priority"}

\* C11: a remote answer that lacks severity_score, severity_level or priority
\* is never taken as the result of an intake: with the fallback enabled the
\* intake's result is the rule-based one, otherwise the intake ends with the
\* scoring failure, and in neither case is the result the answer with
\* built-in defaults in place of the missing fields.
C11_MalformedIsFailure ==
  \A t \in Tasks :
    ( /\ tasks[t].op = "assess"
      /\ tasks[t].ai = "ok"
      /\ ~ (SchemaFields \subseteq DOMAIN tasks[t].raw) )
    => /\ tasks[t].res # MapRemote(tasks[t].raw)
       /\ IF useFallback
            THEN tasks[t].res = RuleBased(tasks[t].inp)
            ELSE tasks[t].ret = Response(500, "AI Analysis Failed")

Levels == {"normal", "moderate", "critical"}

\* C12: every triage score stored on a visit and every severity_score of a
\* queue entry lies in 0..100, and every stored severity level is one of
\* normal, moderate, critical.
C12_StoredScoresInRange ==
  /\ \A v \in DOMAIN visits :
       /\ "triage_score" \in DOMAIN visits[v]
            => visits[v].triage_score \in 0..100
       /\ "severity_level" \in DOMAIN visits[v]
            => visits[v].severity_level \in Levels
  /\ \A e \in queue :
       /\ e.severity_score \in 0..100
       /\ e.severity_level \in Levels

\* The alerts of one type about one visit.
CountAlerts(as, alert_type, v) ==
  Cardinality({k \in DOMAIN as : as[k].type = alert_type /\ as[k].visit_id = v})

\* This step ends the handler of task t, a request of kind op: whatever the
\* request creates has been created when the step is over.
Ends(t, op) ==
  /\ tasks[t].pc # "done"
  /\ tasks'[t].op = op
  /\ tasks'[t].pc = "done"

\* The scorer, remote or rule-based, produced a result for the request.
HasResult(tk) ==
  \/ tk.ai = "ok"
  \/ tk.ai \in {"failed", "timeout", "raised"} /\ useFallback

ResultLevel(res) ==
  IF "level" \in DOMAIN res THEN res.level ELSE res.severity_level

ResultVitalFlags(res) ==
  IF "vitalFlags" \in DOMAIN res THEN res.vitalFlags
  ELSE res.vital_abnormalities

\* C13: an intake whose result is critical has created exactly one
\* new_critical alert for its visit when it ends, and an intake whose result
\* is not critical has created no new_critical and no severity_change alert.
C13_CriticalIntakeAlerts ==
  [][ \A t \in Tasks :
        (Ends(t, "assess") /\ HasResult(tasks'[t]))
        => LET v == tasks'[t].visit IN
           IF ResultLevel(tasks'[t].res) = "critical"
             THEN CountAlerts(alerts', "new_critical", v)
                    = CountAlerts(alerts, "new_critical", v) + 1
             ELSE /\ CountAlerts(alerts', "new_critical", v)
                       = CountAlerts(alerts, "new_critical", v)
                  /\ CountAlerts(alerts', "severity_change", v)
                       = CountAlerts(alerts, "severity_change", v) ]_vars

\* C14: a follow-up that changed its visit's level has created a new_critical
\* alert for the visit if the new level is critical, and a severity_change
\* alert if the new level is not critical, when it ends.
C14_LevelChangeAlerts ==
  [][ \A t \in Tasks :
        ( /\ Ends(t, "follow_up")
          /\ tasks'[t].ai = "ok"
          /\ "level" \in DOMAIN tasks'[t].res
          /\ tasks'[t].res.level # tasks'[t].old.level )
        => LET v == tasks'[t].visit IN
           IF tasks'[t].res.level = "critical"
             THEN CountAlerts(alerts', "new_critical", v)
                    > CountAlerts(alerts, "new_critical", v)
             ELSE CountAlerts(alerts', "severity_change", v)
                    > CountAlerts(alerts, "severity_change", v) ]_vars

\* C15: a follow-up reporting condition_change = worsened that is answered
\* with its reassessment has created a follow_up_worsening alert for the
\* visit, however small the change of score.
C15_WorseningAlerts ==
  [][ \A t \in Tasks :
        ( /\ Ends(t, "follow_up")
          /\ tasks'[t].inp.condition_change = "worsened"
          /\ tasks'[t].ret.status = 200 )
        => CountAlerts(alerts', "follow_up_worsening", tasks'[t].visit)
             > CountAlerts(alerts, "follow_up_worsening", tasks'[t].visit) ]_vars

\* C16: an intake whose result lists vital abnormalities has created one
\* vital_deterioration alert for its visit when it ends, whether the remote
\* scorer or the rule-based one produced the result, and an intake whose
\* result lists none has created no such alert.
C16_VitalAlerts ==
  [][ \A t \in Tasks :
        (Ends(t, "assess") /\ HasResult(tasks'[t]))
        => LET v == tasks'[t].visit IN
           CountAlerts(alerts', "vital_deterioration", v)
             = CountAlerts(alerts, "vital_deterioration", v)
               + (IF ResultVitalFlags(tasks'[t].res) # <<>> THEN 1 ELSE 0) ]_vars

\* A call of reassess_severity with an original score in 0..100 has returned.
Reassessed ==
  /\ sc_out # <<>>
  /\ sc_in.fn = "reassess"
  /\ sc_in.original_score \in 0..100

\* C19 as stated: for every original score in 0..100 and every follow-up
\* text, reassess_severity returns a score in 0..100 that is not lower than
\* the original when the condition worsened and not higher than the original
\* when it improved.
C19_ReassessBoundsAsStated ==
  Reassessed =>
    LET new == sc_out[1].severity_score IN
    /\ new \in 0..100
    /\ sc_in.condition_change = "worsened" => new >= sc_in.original_score
    /\ sc_in.condition_change = "improved" => new <= sc_in.original_score

\* C19, amended: the same, but a follow-up text that holds an emergency
\* keyword makes the score 100 whatever the reported change, so that
\* "improved" does not raise the score only when the text holds no emergency
\* keyword.
C19_ReassessBounds ==
  Reassessed =>
    LET new == sc_out[1].severity_score
        emergency == \E n \in DOMAIN EMERGENCY_KEYWORDS :
                        OccursIgnoringCase(EMERGENCY_KEYWORDS[n], sc_in.follow_up_text)
    IN
    /\ new \in 0..100
    /\ sc_in.condition_change = "worsened" => new >= sc_in.original_score
    /\ emergency => new = 100
    /\ (sc_in.condition_change = "improved" /\ ~emergency)
         => new <= sc_in.original_score
    /\ sc_out[1].score_change = new - sc_in.original_score

\* C19 witness: an improved condition at original score 10 was floored at 0,
\* with no emergency keyword in the text.
C19_Witness ==
  /\ Reassessed
  /\ sc_in.condition_change = "improved"
  /\ sc_in.original_score = 10
  /\ sc_in.follow_up_text = TxtHeadache
  /\ sc_out[1].severity_score = 0

\* C20: the refresh that get_queue_statistics runs comes right after the
\* refresh of the operation before it, with no mutation of the queue in
\* between; none of its steps changes the position (or anything else) of an
\* entry, in the store or in the cache.
C20_RequeueIdempotent ==
  [][ \A t \in Tasks :
        ( /\ tasks[t].op = "stats"
          /\ InRefresh(t)
          /\ tasks'[t] # tasks[t] )
        => /\ queue' = queue
           /\ queue_cache' = queue_cache
           /\ \A k \in DOMAIN queue_cache' : queue_cache'[k].queue_position = k ]_vars

\* C20 witness: a statistics request has refreshed a queue of two waiting
\* entries a second time, and both positions were written again.
C20_Witness ==
  \E t \in Tasks :
    /\ tasks[t].op = "stats"
    /\ tasks[t].pc = "refresh_write"
    /\ tasks[t].i = 3
    /\ Len(queue_cache) = 2
    /\ Cardinality(Waiting) = 2

\* Minutes a waiting entry of a level may wait before it waits too long; an
\* entry of any other level is held to the 60 minutes of normal.
WaitLimit(level) ==
  CASE level = "critical" -> 5
    [] level = "moderate" -> 30
    [] OTHER -> 60

\* The entry of the store is waiting, and at time t more minutes have passed
\* since its check-in than its level allows.
WaitsTooLong(e, t) ==
  /\ e.status = "waiting"
  /\ t - e.checked_in_at > 60 * WaitLimit(e.severity_level)

\* The list names exactly the entries of the store that wait too long at
\* time t, each once.
ListsTheLongWaiting(list, t) ==
  /\ \A e \in queue :
       WaitsTooLong(e, t) <=> \E k \in DOMAIN list : list[k].entry.id = e.id
  /\ \A k \in DOMAIN list : \E e \in queue : e.id = list[k].entry.id
  /\ \A k, j \in DOMAIN list : list[k].entry.id = list[j].entry.id => k = j

\* C17: a sweep starts from the list of exactly the waiting entries over
\* their threshold at that time, creates one long_wait alert for each entry
\* of the list, in turn, whether or not an earlier sweep alerted for it, and
\* ends when the list is exhausted; nothing else creates a long_wait alert.
C17_SweepAlerts ==
  [][ LET before == tasks[Sweeper]
          after  == tasks'[Sweeper]
      IN
      /\ (before.pc = "sleeping" /\ after.pc = "notify")
           => /\ ListsTheLongWaiting(after.snap, now')
              /\ queue' = queue
              /\ alerts' = alerts
      /\ (before.pc = "notify" /\ after.pc = "broadcast")
           => /\ before.i <= Len(before.snap)
              /\ after.i = before.i
              /\ after.snap = before.snap
              /\ Len(alerts') = Len(alerts) + 1
              /\ SubSeq(alerts', 1, Len(alerts)) = alerts
              /\ alerts'[Len(alerts')].type = "long_wait"
              /\ alerts'[Len(alerts')].visit_id
                   = before.snap[before.i].entry.visit_id
      /\ (before.pc = "broadcast" /\ after # before)
           => /\ after.snap = before.snap
              /\ alerts' = alerts
              /\ after.pc = "broadcast" => after.i = before.i
              /\ after.pc # "broadcast" =>
                   after.pc = "notify" /\ after.i = before.i + 1
      /\ (before.pc = "notify" /\ after.pc = "sleeping")
           => /\ before.i = Len(before.snap) + 1
              /\ alerts' = alerts
      /\ after = before
           => \A v \in DOMAIN visits :
                CountAlerts(alerts', "long_wait", v)
                  = CountAlerts(alerts, "long_wait", v) ]_vars

\* check_long_wait_patients has just returned to the sweep.
JustChecked ==
  /\ tasks[Sweeper].pc = "notify"
  /\ tasks[Sweeper].i = 1
  /\ running = Sweeper

\* C18: what check_long_wait_patients returns names exactly the entries that
\* are waiting in the queue store and whose minutes since check-in exceed
\* the threshold of their level (critical 5, moderate 30, normal 60), each
\* with its whole minutes waited and with overage = minutes - threshold; a
\* waiting critical entry checked in 10 minutes ago is among them with
\* overage 5, and no entry that was called or completed is.
C18_LongWaitList ==
  JustChecked =>
    LET list == tasks[Sweeper].snap IN
    /\ ListsTheLongWaiting(list, now)
    /\ \A k \in DOMAIN list :
         \E e \in queue :
           /\ e.id = list[k].entry.id
           /\ e.status = "waiting"
           /\ visits[e.visit_id].status = "waiting"
           /\ list[k].wait_time_minutes = (now - e.checked_in_at) \div 60
           /\ list[k].threshold_exceeded
                = list[k].wait_time_minutes - WaitLimit(e.severity_level)
    /\ \A e \in queue :
         ( /\ e.status = "waiting"
           /\ e.severity_level = "critical"
           /\ now - e.checked_in_at = 600 )
         => \E k \in DOMAIN list :
              /\ list[k].entry.id = e.id
              /\ list[k].wait_time_minutes = 10
              /\ list[k].threshold_exceeded = 5


-----------------------------------------------------------------------------
(* Alerts and their acknowledgement.                                       *)

\* The ids of the alerts get_active_alerts returns.
ActiveIds(as) ==
  LET active == get_active_alerts(as)
  IN  { active[k].id : k \in DOMAIN active }

\* The ids of the alerts stored as acknowledged.
AcknowledgedIds(as) == { k \in DOMAIN as : as[k].acknowledged }

\* C21: acknowledgement is one-way.  An acknowledged alert is not among the
\* alerts get_active_alerts returns, and whatever step follows, it is still
\* stored, still acknowledged and still not returned.
C21_AcknowledgedStays ==
  [][ /\ AcknowledgedIds(alerts) \cap ActiveIds(alerts) = {}
      /\ AcknowledgedIds(alerts) \subseteq AcknowledgedIds(alerts')
      /\ AcknowledgedIds(alerts) \cap ActiveIds(alerts') = {} ]_vars

\* C21 witness: an alert was acknowledged at time 0; at time 1 it is not
\* among the active alerts, while a later alert of another visit is.
C21_Witness ==
  \E k \in DOMAIN alerts :
    /\ alerts[k].acknowledged
    /\ alerts[k].acknowledged_by = "doctor_002"
    /\ alerts[k].acknowledged_at = 0
    /\ now = 1
    /\ \E j \in DOMAIN alerts :
         /\ j > k
         /\ alerts[j].visit_id # alerts[k].visit_id
         /\ j \in ActiveIds(alerts)
         /\ k \notin ActiveIds(alerts)

\* C22: an alert is acknowledged once.  A step that acknowledges an alert
\* that is already acknowledged leaves the acknowledger and the time of the
\* first acknowledgement as they were.
C22_FirstAcknowledgementKept ==
  [][ \A k \in DOMAIN alerts :
        alerts[k].acknowledged =>
          /\ alerts'[k].acknowledged_by = alerts[k].acknowledged_by
          /\ alerts'[k].acknowledged_at = alerts[k].acknowledged_at ]_vars


-----------------------------------------------------------------------------
(* Push delivery.                                                          *)

\* What send_notification_to_doctors returned is a count of successes and
\* failures over the tokens it sent to.
IsCounts(result) ==
  /\ DOMAIN result = {"success", "sent_to", "success_count", "failure_count"}
  /\ result.success = TRUE
  /\ result.sent_to >= 1
  /\ result.success_count \in 0..result.sent_to
  /\ result.failure_count = result.sent_to - result.success_count

\* ... or the report that no device token is registered.
IsNoTokens(result) ==
  result = [success |-> FALSE, message |-> "No device tokens found"]

\* The step ends the handler of task t after its queue refresh.
Finishes(t) == tasks[t].pc = "refresh_write" /\ tasks'[t].pc = "done"

\* C23: a failed push delivery loses no alert and fails no request.  When
\* a handler has raised its alerts, every alert its result calls for is
\* stored (new_critical for a critical intake, vital_deterioration for
\* abnormal vitals, follow_up_worsening for a worsened follow-up), one per
\* delivery attempted, the handler answers 200 with its result, and each
\* delivery is reported as counts of successes and failures or as "no device
\* tokens", never as an exception; the alerts stored earlier are kept.
C23_DeliveryFailureIsHarmless ==
  [][ \A t \in Tasks :
        Finishes(t) =>
          LET tk   == tasks[t]
              v    == tk.visit
              sent == tasks'[t].sent
          IN  /\ SubSeq(alerts', 1, Len(alerts)) = alerts
              /\ Len(alerts') = Len(alerts) + Len(sent)
              /\ \A k \in DOMAIN sent :
                   /\ IsCounts(sent[k]) \/ IsNoTokens(sent[k])
                   /\ alerts'[Len(alerts) + k].visit_id = v
                   /\ ~alerts'[Len(alerts) + k].acknowledged
              /\ tasks'[t].ret.status = 200
              /\ tk.op = "assess" =>
                   /\ tasks'[t].ret.triage_result = tk.res
                   /\ tk.res.level = "critical" =>
                        CountAlerts(alerts', "new_critical", v)
                          = CountAlerts(alerts, "new_critical", v) + 1
                   /\ tk.res.vitalFlags # <<>> =>
                        CountAlerts(alerts', "vital_deterioration", v)
                          = CountAlerts(alerts, "vital_deterioration", v) + 1
              /\ tk.op = "follow_up" /\ tk.inp.condition_change = "worsened" =>
                   CountAlerts(alerts', "follow_up_worsening", v)
                     = CountAlerts(alerts, "follow_up_worsening", v) + 1 ]_vars

\* C23 witness: an intake has answered 200 with a critical result after two
\* deliveries, the first with a failed token and the second with no token
\* registered, and both its alerts are stored.
C23_Witness ==
  \E t \in Tasks :
    /\ tasks[t].op = "assess"
    /\ tasks[t].pc = "done"
    /\ tasks[t].ret.status = 200
    /\ tasks[t].ret.triage_result.level = "critical"
    /\ Len(tasks[t].sent) = 2
    /\ IsCounts(tasks[t].sent[1])
    /\ tasks[t].sent[1].failure_count = 1
    /\ IsNoTokens(tasks[t].sent[2])
    /\ CountAlerts(alerts, "new_critical", tasks[t].visit) = 1
    /\ CountAlerts(alerts, "vital_deterioration", tasks[t].visit) = 1


-----------------------------------------------------------------------------
(* Broadcast to the websocket listeners.                                   *)

Members(list) == { list[k] : k \in DOMAIN list }

\* The writes of the broadcast so far that went to listener c.
WritesTo(tk, c) == { k \in DOMAIN tk.wrote : tk.wrote[k].to = c }

\* C24: a failed write keeps the message from no other listener and does
\* not end the sweep.  A step of a broadcast leaves the sweep in the
\* broadcast or at the next item of its list, and when a broadcast in which
\* a write failed returns, send_json has been called once for every
\* connected listener.
C24_BroadcastReachesOthers ==
  [][ LET before == tasks[Sweeper]
          after  == tasks'[Sweeper]
      IN  /\ (before.pc = "broadcast" /\ after # before)
            => /\ after.pc \in {"broadcast", "notify"}
               /\ after.snap = before.snap
               /\ after.pc = "notify" => after.i = before.i + 1
          /\ ( /\ before.pc = "broadcast"
               /\ after.pc = "notify"
               /\ \E k \in DOMAIN before.wrote : ~before.wrote[k].ok )
            => \A c \in Members(before.start) \cup Members(active_connections) :
                 Cardinality(WritesTo(before, c)) = 1 ]_vars

\* C24 witness: a broadcast to two listeners in which the write to the
\* first failed has gone on to write to the second.
C24_Witness ==
  /\ tasks[Sweeper].pc = "broadcast"
  /\ Len(active_connections) = 2
  /\ Len(tasks[Sweeper].wrote) = 2
  /\ ~tasks[Sweeper].wrote[1].ok
  /\ tasks[Sweeper].wrote[1].to = active_connections[1]
  /\ tasks[Sweeper].wrote[2].to = active_connections[2]


-----------------------------------------------------------------------------
(* The store as the source of truth.                                       *)

HasWaitingEntry(v) == \E e \in Waiting : e.visit_id = v

\* The queue manager told the handler of task t that the visit has no entry.
ReportsNotFound(tk) ==
  /\ tk.pc = "done"
  /\ \/ tk.op \in {"call", "complete"} /\ tk.ret = Response(404, "Entry not found")
     \/ tk.op = "follow_up" /\ tk.upd = <<[error |-> "Entry not found in queue"]>>

\* C25: update_severity, call_patient and complete_visit decide from the
\* store.  None of them reports not-found for a visit that has a waiting
\* entry in the queue store, whatever the cache holds.
C25_StoreDecides ==
  [][ \A t \in Tasks :
        (tasks[t].pc # "done" /\ ReportsNotFound(tasks'[t]))
          => ~HasWaitingEntry(tasks'[t].visit) ]_vars


-----------------------------------------------------------------------------
(* Wait estimates.                                                         *)

\* No handler is at work: every queue mutation requested so far is over.
Quiet == running = NoTask /\ \A t \in Tasks : tasks[t].op = "idle"

\* base(level) + 10 x the waiting entries ahead of the level in priority.
EstimateOver(entries, level) ==
  LET ahead == IF level = "critical" THEN {}
               ELSE IF level = "moderate"
                 THEN {e \in entries : e.severity_level = "critical"}
               ELSE {e \in entries : e.severity_level \in {"critical", "moderate"}}
  IN  (IF level \in DOMAIN wait_time_estimates
         THEN wait_time_estimates[level] ELSE 30) + 10 * Cardinality(ahead)

\* C26: after every queue mutation the stored wait estimate of every waiting
\* entry is the estimate over the queue as it is now: base(level) plus ten
\* minutes for each waiting entry ahead of it in priority.
C26_EstimatesFollowQueue ==
  Quiet =>
    \A e \in Waiting :
      e.estimated_wait_time = EstimateOver(Waiting, e.severity_level)


-----------------------------------------------------------------------------
(* The reassessment's arithmetic.                                          *)

\* C27: reassess_severity returns min(original + 20, 100) for worsened,
\* max(original - 15, 0) for improved and the original for same, unless the
\* follow-up text holds an emergency keyword: then it returns 100, critical,
\* priority 1, whatever the reported change.  score_change is the returned
\* score minus the original.
C27_ReassessArithmetic ==
  (sc_out # <<>> /\ sc_in.fn = "reassess") =>
    LET o == sc_in.original_score
        out == sc_out[1]
        emergency == \E n \in DOMAIN EMERGENCY_KEYWORDS :
                        OccursIgnoringCase(EMERGENCY_KEYWORDS[n], sc_in.follow_up_text)
        adjusted == CASE sc_in.condition_change = "worsened" ->
                           IF o + 20 > 100 THEN 100 ELSE o + 20
                      [] sc_in.condition_change = "improved" ->
                           IF o - 15 < 0 THEN 0 ELSE o - 15
                      [] sc_in.condition_change = "same" -> o
    IN  /\ ~emergency => out.severity_score = adjusted
        /\ emergency => /\ out.severity_score = 100
                        /\ out.severity_level = "critical"
                        /\ out.priority = 1
        /\ out.score_change = out.severity_score - o

\* C27 witness: an improved condition at original score 50 with "had a Seizure"
\* in the follow-up text came back as 100, critical, priority 1, change +50.
C27_Witness ==
  /\ sc_out # <<>>
  /\ sc_in.fn = "reassess"
  /\ sc_in.condition_change = "improved"
  /\ sc_in.original_score = 50
  /\ sc_in.follow_up_text = TxtSeizure
  /\ sc_out[1].severity_score = 100
  /\ sc_out[1].severity_level = "critical"
  /\ sc_out[1].priority = 1
  /\ sc_out[1].score_change = 50


-----------------------------------------------------------------------------
(* The estimate stored at the enqueue.                                     *)

\* Task t's step hands a new entry to the store (add_to_queue, up to its
\* refresh).
Enqueues(t) ==
  /\ tasks[t].op = "assess"
  /\ tasks[t].pc # "refresh_read"
  /\ tasks'[t].pc = "refresh_read"
  /\ tasks'[t].ret \in queue'

\* C28: the wait estimate stored on a new entry is base(level) plus ten
\* minutes for each entry waiting in the store at the moment of the enqueue
\* that is ahead of the level: none for critical, the critical ones for
\* moderate, the critical and moderate ones for normal.
C28_EstimateAtEnqueue ==
  [][ \A t \in Tasks :
        Enqueues(t) =>
          tasks'[t].ret.estimated_wait_time
            = EstimateOver(Waiting, tasks'[t].ret.severity_level) ]_vars


-----------------------------------------------------------------------------
(* update_severity.                                                        *)

\* Task t's step is update_severity finding the visit's entry: its result
\* is recorded and it is not the error dict.
UpdatesSeverity(t) ==
  /\ tasks[t].upd = <<>>
  /\ tasks'[t].upd # <<>>
  /\ "error" \notin DOMAIN tasks'[t].upd[1]

\* C29: update_severity on a visit with a waiting entry overwrites the
\* entry's score and level in the store, sets its priority from the new level
\* alone (critical 1, moderate 2, otherwise 3) whatever it was, leaves the
\* other fields, and goes on to refresh the queue; severity_changed tells
\* whether the level differs from the old one and position_changed whether
\* the priority differs from the old one, each on its own.
C29_UpdateSeverity ==
  [][ \A t \in Tasks :
        UpdatesSeverity(t) =>
          LET old == queue_cache[FindInCache(queue_cache, tasks[t].visit)]
              new == tasks'[t].res
              u   == tasks'[t].upd[1]
              by_level == CASE new.level = "critical" -> 1
                            [] new.level = "moderate" -> 2
                            [] OTHER -> 3
          IN  /\ old \in Waiting
              /\ [old EXCEPT !.severity_score = new.score,
                             !.severity_level = new.level,
                             !.priority = by_level] \in queue'
              /\ \A e \in queue' : e.id = old.id => e.priority = by_level
              /\ tasks'[t].pc = "refresh_read"
              /\ u.severity_changed = (old.severity_level # new.level)
              /\ u.position_changed = (old.priority # by_level) ]_vars

\* C29 witness: an update that kept the level (critical) and changed the
\* priority, from the 3 the entry was enqueued with to 1.
C29_Witness ==
  \E t \in Tasks :
    /\ tasks[t].upd # <<>>
    /\ "error" \notin DOMAIN tasks[t].upd[1]
    /\ ~tasks[t].upd[1].severity_changed
    /\ tasks[t].upd[1].position_changed
    /\ tasks[t].upd[1].entry.priority = 1
    /\ \E e \in Waiting : /\ e.visit_id = tasks[t].visit
                          /\ e.severity_level = "critical"
                          /\ e.priority = 1


-----------------------------------------------------------------------------
(* The weighted combination.                                               *)

\* C30: without an emergency keyword and without a duration modifier, the
\* score predict_severity returns for symptom score s and vital score v is
\* 0.7 s + 0.3 v rounded to the nearest integer (within half a point of the
\* weighted sum), and the level is the class of that score.
C30_CombinedIsRounded ==
  ( /\ sc_out # <<>>
    /\ sc_in.fn = "predict"
    /\ ~check_emergency_keywords(sc_in.symptom_text).is_emergency
    /\ sc_in.duration \in {<<>>, Dur3Days} ) =>
    LET tenths == 7 * sc_in.symptom_score + 3 * analyze_vitals(sc_in.vitals).score
        total  == sc_out[1].severity_score
    IN  /\ 10 * total - tenths \in -5..5
        /\ sc_out[1].severity_level = Classify(total).severity_level


-----------------------------------------------------------------------------
(* The vital analysis.                                                     *)

\* The items of the dict (by their place in it) that are measured and have
\* thresholds.
Judged(v) ==
  {k \in DOMAIN v : v[k][2] # NoneValue /\ v[k][1] \in DOMAIN vital_thresholds}

BreachesCritical(v, k) ==
  \/ v[k][2] <= vital_thresholds[v[k][1]].critical_low
  \/ v[k][2] >= vital_thresholds[v[k][1]].critical_high

BreachesModerate(v, k) ==
  /\ ~BreachesCritical(v, k)
  /\ v[k][2] <= vital_thresholds[v[k][1]].low \/ v[k][2] >= vital_thresholds[v[k][1]].high

\* C31: analyze_vitals adds 30 for each measured vital at or beyond a
\* critical threshold and 15 for each at or beyond only a low/high
\* threshold, skips keys that are missing, None or without thresholds, caps
\* the sum at 50, and lists each breaching vital once, with its value.
C31_VitalAnalysis ==
  (sc_out # <<>> /\ sc_in.fn = "vitals") =>
    LET v    == sc_in.vitals
        crit == {k \in Judged(v) : BreachesCritical(v, k)}
        mod  == {k \in Judged(v) : BreachesModerate(v, k)}
        sum  == 30 * Cardinality(crit) + 15 * Cardinality(mod)
        abn  == sc_out[1].abnormalities
    IN  /\ sc_out[1].score = IF sum > 50 THEN 50 ELSE sum
        /\ Len(abn) = Cardinality(crit) + Cardinality(mod)
        /\ \A k \in crit : \E m \in DOMAIN abn : abn[m] = <<"Critical", v[k][1], v[k][2]>>
        /\ \A k \in mod : \E m \in DOMAIN abn : abn[m] = <<"Abnormal", v[k][1], v[k][2]>>

\* C31 witness: three critical vitals (30 each) beside an unmeasured one and
\* one without thresholds gave 50 and three entries.
C31_Witness ==
  /\ sc_out # <<>>
  /\ sc_in.fn = "vitals"
  /\ sc_in.vitals = << <<"weight", 70>>, <<"oxygen_saturation", 88>>,
                        <<"heart_rate", 130>>, <<"temperature", NoneValue>>,
                        <<"blood_pressure_systolic", 85>> >>
  /\ sc_out[1].score = 50
  /\ sc_out[1].abnormalities = << <<"Critical", "oxygen_saturation", 88>>,
                                  <<"Critical", "heart_rate", 130>>,
                                  <<"Critical", "blood_pressure_systolic", 85>> >>


\* A measured vital inside its normal range: strictly between its low and
\* high thresholds, or an oxygen saturation above its low threshold and up
\* to 100 per cent.
WithinNormal(v, k) ==
  /\ v[k][2] > vital_thresholds[v[k][1]].low
  /\ \/ v[k][2] < vital_thresholds[v[k][1]].high
     \/ v[k][1] = "oxygen_saturation" /\ v[k][2] <= 100

\* C40: when every measured vital of the dict is inside its normal range,
\* an oxygen saturation of 100 included, analyze_vitals returns the score 0
\* and no abnormality.
C40_NormalVitalsScoreZero ==
  ( /\ sc_out # <<>>
    /\ sc_in.fn = "vitals"
    /\ \A k \in Judged(sc_in.vitals) : WithinNormal(sc_in.vitals, k) ) =>
    /\ sc_out[1].score = 0
    /\ sc_out[1].abnormalities = <<>>


-----------------------------------------------------------------------------
(* The emergency override at the intake.                                   *)

\* C32: the queue entry an intake creates for a symptom text that holds an
\* emergency keyword is critical with score 100 and priority 1, whether the
\* remote scorer or the rule-based one produced the result.
C32_EmergencyEntryIsCritical ==
  [][ \A t \in Tasks :
        ( /\ Enqueues(t)
          /\ check_emergency_keywords(tasks'[t].inp.symptom_text).is_emergency )
        => /\ tasks'[t].ret.severity_level = "critical"
           /\ tasks'[t].ret.severity_score = 100
           /\ tasks'[t].ret.priority = 1 ]_vars


-----------------------------------------------------------------------------
(* Visits and their queue entries.                                         *)

\* C33: with no request in progress, every visit in status waiting has
\* exactly one waiting queue entry, and every waiting queue entry is of a
\* visit in status waiting; a failed intake leaves no waiting visit without
\* an entry.
C33_WaitingVisitHasEntry ==
  Quiet =>
    /\ \A v \in DOMAIN visits :
         visits[v].status = "waiting" =>
           Cardinality({e \in Waiting : e.visit_id = v}) = 1
    /\ \A e \in Waiting :
         /\ e.visit_id \in DOMAIN visits
         /\ visits[e.visit_id].status = "waiting"


-----------------------------------------------------------------------------
(* The queue entry against the visit's latest score.                       *)

\* C34: after every intake and every follow-up, the score and level of a
\* visit's waiting queue entry are the triage_score and severity_level
\* stored on the visit.
C34_EntryShowsLatestScore ==
  Quiet =>
    \A e \in Waiting :
      "triage_score" \in DOMAIN visits[e.visit_id] =>
        /\ e.severity_score = visits[e.visit_id].triage_score
        /\ e.severity_level = visits[e.visit_id].severity_level


-----------------------------------------------------------------------------
(* The entry a queue call hands back.                                      *)

\* The position the store holds for the entry's document, 0 if it has none.
StoredPosition(q, entry) ==
  IF \E e \in q : e.id = entry.id
    THEN (CHOOSE e \in q : e.id = entry.id).queue_position
    ELSE 0

\* The entry has the position that the requeue just stored for it.
HasFreshPosition(q, entry) ==
  /\ entry.queue_position \in 1..Cardinality({e \in q : e.status = "waiting"})
  /\ entry.queue_position = StoredPosition(q, entry)

\* Task t's refresh has ended and its handler goes on with what the queue
\* call returned.
RequeueReturns(t) ==
  /\ tasks[t].pc = "refresh_write"
  /\ tasks'[t].pc = "done"
  /\ tasks[t].i > Len(tasks[t].snap)

\* C35: the entry add_to_queue returns, and the entry update_severity
\* returns, carry the queue position that the requeue inside the call has
\* just stored for that entry, a value in 1..N.
C35_ReturnedPositionIsFresh ==
  [][ \A t \in Tasks :
        RequeueReturns(t) =>
          /\ tasks[t].op = "assess" => HasFreshPosition(queue', tasks[t].ret)
          /\ (tasks[t].op = "follow_up" /\ tasks[t].upd # <<>>)
               => HasFreshPosition(queue', tasks[t].upd[1].entry) ]_vars


-----------------------------------------------------------------------------
(* The queue calls that find no entry.                                     *)

\* Task t's step starts a call-patient or complete-visit request for a
\* visit the queue manager has no entry for.
CallsWithoutEntry(t) ==
  /\ tasks[t].op = "idle"
  /\ tasks'[t].op \in {"call", "complete"}
  /\ FindInCache(queue_cache, tasks'[t].visit) = 0

\* Task t's step is a follow-up's call of update_severity for a visit the
\* queue manager has no entry for.
UpdatesWithoutEntry(t) ==
  /\ tasks'[t].op = "follow_up"
  /\ tasks[t].upd = <<>>
  /\ tasks'[t].upd # <<>>
  /\ FindInCache(queue_cache, tasks'[t].visit) = 0

\* C36: update_severity, call_patient and complete_visit that find no queue
\* entry for the visit return the not-found error and change nothing: the
\* queue store with its positions, the cache and (inside the call) the visit
\* are as before.
C36_NotFoundChangesNothing ==
  [][ \A t \in Tasks :
        /\ CallsWithoutEntry(t) =>
             /\ tasks'[t].pc = "done"
             /\ tasks'[t].ret = Response(404, "Entry not found")
             /\ queue' = queue
             /\ queue_cache' = queue_cache
             /\ visits' = visits
        /\ UpdatesWithoutEntry(t) =>
             /\ "error" \in DOMAIN tasks'[t].upd[1]
             /\ queue' = queue
             /\ queue_cache' = queue_cache
             /\ \A v \in DOMAIN visits :
                  v # tasks'[t].visit => visits'[v] = visits[v] ]_vars

\* C36 witness: a follow-up's update_severity found no entry for its visit
\* while another visit's entry waits in the store and in the cache.
C36_Witness ==
  \E t \in Tasks :
    /\ tasks[t].op = "follow_up"
    /\ tasks[t].upd = <<[error |-> "Entry not found in queue"]>>
    /\ FindInCache(queue_cache, tasks[t].visit) = 0
    /\ Waiting # {}
    /\ queue_cache # <<>>


-----------------------------------------------------------------------------
(* Overlapping follow-ups.                                                 *)

\* C37: once two follow-ups, which may have overlapped, have both ended, the
\* state is one that running them one after the other gives: each visit's
\* score and level are those of a scorer answer, and its waiting queue entry
\* holds the same score and level and the priority of that level.
C37_FollowUpsSerializable ==
  (Quiet /\ follow_ups = MaxRaceFollowUps) =>
    \A e \in Waiting :
      LET visit == visits[e.visit_id] IN
      /\ \E r \in RaceResponses : /\ visit.triage_score = r.severity_score
                                  /\ visit.severity_level = r.severity_level
      /\ e.severity_score = visit.triage_score
      /\ e.severity_level = visit.severity_level
      /\ e.priority = PriorityOfLevel(visit.severity_level)


-----------------------------------------------------------------------------
(* A broadcast while listeners come and go.                                *)

-----------------------------------------------------------------------------
(* The sweep in the long run.                                              *)

SweepsMissed == 3        \* sweeps an entry has been due for, and left out of

\* Visit v has a waiting entry of a regular level that has been over the
\* long-wait threshold of its level for more than SweepsMissed sleeps of
\* the sweep.
OverThreshold(v) ==
  \E e \in Waiting :
    /\ e.visit_id = v
    /\ e.severity_level \in DOMAIN long_wait_threshold
    /\ \A d \in SleepTimes : WaitsTooLong(e, now - SweepsMissed * d)

\* notify_long_wait raises on the entry at the head of the cache, which is
\* over the threshold it is held to: it is the first of every sweep's list.
HeadRaises ==
  /\ queue_cache # <<>>
  /\ NotifyRaises(queue_cache[1])
  /\ now - queue_cache[1].checked_in_at
       > 60 * ThresholdOf(queue_cache[1].severity_level)

\* The sweep is asleep, or at the first item of a list on which
\* notify_long_wait raises.
SweepRaisesFirst ==
  \/ tasks[Sweeper].pc = "sleeping"
  \/ /\ tasks[Sweeper].pc = "notify"
     /\ tasks[Sweeper].i = 1
     /\ tasks[Sweeper].snap # <<>>
     /\ NotifyRaises(tasks[Sweeper].snap[1].entry)

\* Visit v is over its threshold, has no long_wait alert, and every sweep
\* ends on the entry at the head of its list before it comes to v.
Starved(v) ==
  /\ OverThreshold(v)
  /\ CountAlerts(alerts, "long_wait", v) = 0
  /\ HeadRaises
  /\ SweepRaisesFirst

\* As long as nobody calls a patient, a starved visit stays starved: no step
\* of a sweep, of an intake or of a refresh leads out of it, and the wait
\* only grows.
StarvedStays ==
  [][ \A v \in 1..MaxVisits : Starved(v) => Starved(v)' ]_vars

\* C39: the sweep keeps running, and every waiting entry that stays over
\* its long-wait threshold gets a long_wait alert in the end, whatever
\* happened to an earlier sweep or to the notification of another entry.
\* An entry that waits is therefore never starved: from there on
\* (StarvedStays) it stays over its threshold without an alert for as long
\* as it waits.
C39_LongWaitAlerted ==
  \A v \in 1..MaxVisits : ~Starved(v)

=============================================================================
